---- MODULE Spec2Model ----
(***************************************************************************)
(* tmon telemetry collector: the frame codec (tmon/protocol.py) and the    *)
(* RS-485 poll engine (tmon/serial_poller.py) over a link and a store      *)
(* (tmon/storage.py).                                                      *)
(*                                                                         *)
(* Bytes objects are sequences of integers in 0..255 (1-based here,        *)
(* 0-based in the source: data[i] is data[i + 1] below).  A call's outcome *)
(* is a record: [ok |-> TRUE, val |-> v] for "return v", and               *)
(* [ok |-> FALSE, exc |-> E, reason |-> r] for "raise E(...)".             *)
(* An optional sample (int | None) is <<v>> for v and <<>> for None.       *)
(***************************************************************************)
EXTENDS Integers, Sequences, FiniteSets, TLC

VARIABLES
    call,       \* codec: the call under examination [fn, addr, cmd, bytes]
    ret,        \* codec: its outcome, or NoRet before the call has run
    clients,    \* Poller._clients: the configured address list
    pc,         \* where poll_all stands: idle, send, receive, commit, raised
    idx,        \* 1-based position of poll_all's loop in clients
    results,    \* poll_all's results list
    db_committed,   \* rows of table readings that every connection sees
    db_pending,     \* rows inserted in the writer's open transaction
    now,        \* int(time.time())
    bus_log,    \* the link calls of the current cycle, in order
    cycle_polls,    \* per poll of the current cycle: who was asked, who answered
    last_poll,  \* the last poll() that got its receive(): addr, raw, outcome
    cycles,     \* completed poll_all calls
    transport,  \* the engine the daemon drives: "rs485" or "wifi"
    store_calls,    \* the store calls of the current cycle (or receive), in order
    ins_log,    \* per row an engine inserted, while the row is in the table
                \* or the run lasts: its id, cycle, position and frame
    receives,   \* listener.receive calls made
    last_recv,  \* the last listener.receive: the datagram and the outcome
    link_replies,   \* what the link of this run may deliver to a receive
    interval,   \* cfg["interval"], seconds between two cycles
    wait_until, \* the deadline of the interval wait in progress
    shutdown,   \* the shutdown flag (_shutdown)
    sig_at,     \* where the run stood when the flag was raised
    purges,     \* the purge calls main has made in this run
    closes,     \* the close calls main has made in this run, in order
    ser_in,     \* serial port: the bytes in the input buffer, oldest first
    ser_line,   \* serial port: the bytes still to arrive on the line
    ser_log,    \* the pyserial calls of the Bus call in progress, in order
    ser_pc,     \* where Bus.send or Bus.receive stands
    ser_ret,    \* what the last Bus.receive returned
    w_sockets,  \* WifiBus._sockets: per address the registered connection, 0 for none
    w_conns,    \* per connection: its socket at the server, its buffered input
    w_running,  \* WifiBus._running
    w_server,   \* the listening socket: "open" or "closed"
    acc_pc,     \* where the accept thread stands
    acc_conn,   \* the connection the accept thread holds (conn)
    w_pc,       \* where the caller of send, receive or close stands
    w_sock,     \* the local variable sock of send or receive
    w_cur,      \* WifiBus._current_addr, 0 for None
    w_hdr,      \* receive: the header read
    w_line,     \* the segments the slave has still to send
    w_last,     \* the last WifiBus call that returned, and its result
    last_seen   \* Listener._last_seen: per address None or the time

codecVars == <<call, ret>>
wifiVars == <<w_sockets, w_conns, w_running, w_server, acc_pc, acc_conn,
              w_pc, w_sock, w_cur, w_hdr, w_line, w_last>>
\* the state of the links and of the push listener, which the poll engine,
\* the store and main leave alone
busVars == <<ser_in, ser_line, ser_log, ser_pc, ser_ret, wifiVars, last_seen>>
mainVars == <<interval, wait_until, shutdown, sig_at, purges, closes>>
pollVars == <<clients, pc, idx, results, db_committed, db_pending, now,
              bus_log, cycle_polls, last_poll, cycles, transport, store_calls,
              ins_log, receives, last_recv, link_replies, mainVars, busVars>>
vars == <<call, ret, clients, pc, idx, results, db_committed, db_pending, now,
          bus_log, cycle_polls, last_poll, cycles, transport, store_calls,
          ins_log, receives, last_recv, link_replies, interval, wait_until,
          shutdown, sig_at, purges, closes, ser_in, ser_line, ser_log, ser_pc,
          ser_ret, wifiVars, last_seen>>

(***************************************************************************)
(* Bounds of the model.                                                    *)
(***************************************************************************)
MaxPayloadLen == 2      \* longest enumerated free-form payload
MaxRawLen == 6          \* longest enumerated free-form decoder input
MaxCycles == 2          \* poll_all calls per run
MaxNow == 1             \* clock ticks per run
MaxReceives == 2        \* listener.receive calls per run
MaxStoreCalls == 4      \* state-changing store calls per run of the store API
MaxConfigLen == 3       \* longest enumerated device list of a configuration
MaxConns == 2           \* TCP connections slaves open to a WifiBus

(***************************************************************************)
(* Protocol constants (protocol.py).                                       *)
(***************************************************************************)
PROTO_START == 1
PROTO_CMD_POLL == 1
PROTO_CMD_REPLY == 2
PROTO_REPLY_PAYLOAD_LEN == 8
PROTO_TEMP_INVALID == 32767
PROTO_ADDR_MIN == 1
PROTO_ADDR_MAX == 247
CRC_INIT == 65535
CRC_POLY == 40961
FRAME_MIN_LEN == 6

(***************************************************************************)
(* Python outcomes.                                                        *)
(***************************************************************************)
Return(v) == [ok |-> TRUE, exc |-> "", reason |-> "", val |-> v]
Raise(e, r) == [ok |-> FALSE, exc |-> e, reason |-> r, val |-> <<>>]
NoRet == [ok |-> FALSE, exc |-> "", reason |-> "not called", val |-> <<>>]
None == <<>>
Some(v) == <<v>>

IsByte(b) == b \in 0..255
Min(a, b) == IF a < b THEN a ELSE b

\* data[lo:hi] for 0 <= lo, 0 <= hi: clamped to the object, never raises.
slice(data, lo, hi) == SubSeq(data, lo + 1, Min(hi, Len(data)))

\* data[i] is defined (does not raise IndexError) for 0 <= i < len(data).
has_index(data, i) == 0 <= i /\ i < Len(data)

\* struct.unpack_from(fmt, data, off) needs `size` bytes from off on.
can_unpack(data, off, size) == off >= 0 /\ Len(data) - off >= size

\* struct.unpack_from("<H", data, off)[0]
unpack_from_H(data, off) == data[off + 1] + 256 * data[off + 2]

\* Mutant of unpack_from_h: the word read unsigned ("<H" for "<h").
unpack_from_h_unsigned(data, off) == data[off + 1] + 256 * data[off + 2]

\* struct.unpack_from("<h", data, off)[0]
unpack_from_h(data, off) ==
    LET u == data[off + 1] + 256 * data[off + 2]
    IN  IF u >= 32768 THEN u - 65536 ELSE u

\* Mutant of pack_H: big-endian (">H" for "<H").
pack_H_big_endian(v) == <<v \div 256, v % 256>>

\* struct.pack("<H", v), for v in 0..65535
pack_H(v) == <<v % 256, v \div 256>>

\* struct.pack("<h", v), for v in -32768..32767
pack_h(v) == pack_H(IF v < 0 THEN v + 65536 ELSE v)

(***************************************************************************)
(* crc16_modbus: bitwise CRC-16/MODBUS.                                    *)
(***************************************************************************)
\* a ^ b on non-negative Python integers
RECURSIVE xor(_, _)
xor(x, y) ==
    IF x = 0 THEN y
    ELSE IF y = 0 THEN x
    ELSE ((x + y) % 2) + 2 * xor(x \div 2, y \div 2)

\* "for _ in range(8)": n passes of test bit 0, shift, conditionally xor
RECURSIVE crc_bits(_, _)
crc_bits(crc, n) ==
    IF n = 0 THEN crc
    ELSE IF crc % 2 = 1
    THEN crc_bits(xor(crc \div 2, CRC_POLY), n - 1)
    ELSE crc_bits(crc \div 2, n - 1)

\* "for byte in data", over the bytes at 1-based positions lo..hi, in order.
\* The loop is a left-to-right fold, so folding lo..mid and then mid+1..hi from
\* the register the first part left is the same computation; splitting keeps
\* the evaluation depth logarithmic in the length.  The register is never
\* negative: the test only makes the evaluator compute it before going on.
RECURSIVE crc_loop(_, _, _, _)
crc_loop(crc, data, lo, hi) ==
    IF crc < 0 \/ lo > hi THEN crc
    ELSE IF lo = hi THEN crc_bits(xor(crc, data[lo]), 8)
    ELSE LET mid == (lo + hi) \div 2
             left == crc_loop(crc, data, lo, mid)
         IN  crc_loop(left, data, mid + 1, hi)

\* Mutant of crc16_modbus: register initialised to 0 instead of 0xFFFF.
crc16_modbus_zero_init(data) == crc_loop(0, data, 1, Len(data))

crc16_modbus(data) == crc_loop(CRC_INIT, data, 1, Len(data))

(***************************************************************************)
(* encode_frame / decode_frame / parse_reply.                              *)
(***************************************************************************)
\* Mutant of is_valid_address: the upper limit excluded.
is_valid_address_exclusive(addr) == PROTO_ADDR_MIN <= addr /\ addr < PROTO_ADDR_MAX

is_valid_address(addr) == PROTO_ADDR_MIN <= addr /\ addr <= PROTO_ADDR_MAX

\* Mutant of encode_frame: the CRC computed over START..PAYLOAD.
encode_frame_crc_with_start(addr, cmd, payload) ==
    IF ~is_valid_address(addr)
    THEN Raise("ValueError", "InvalidAddress")
    ELSE IF ~(IsByte(cmd) /\ IsByte(Len(payload)))
    THEN Raise("ValueError", "bytes must be in range(0, 256)")
    ELSE LET body == <<addr, cmd, Len(payload)>> \o payload
             crc == crc16_modbus(<<PROTO_START>> \o body)
         IN  Return(<<PROTO_START>> \o body \o pack_H(crc))

encode_frame(addr, cmd, payload) ==
    IF ~is_valid_address(addr)
    THEN Raise("ValueError", "InvalidAddress")
    ELSE IF ~(IsByte(cmd) /\ IsByte(Len(payload)))
    THEN Raise("ValueError", "bytes must be in range(0, 256)")
    ELSE LET body == <<addr, cmd, Len(payload)>> \o payload
             crc == crc16_modbus(body)
         IN  IF crc \notin 0..65535
             THEN Raise("struct.error", "ushort format requires 0 <= number <= 65535")
             ELSE Return(<<PROTO_START>> \o body \o pack_H(crc))

Frame(addr, cmd, payload) == [addr |-> addr, cmd |-> cmd, payload |-> payload]

\* Mutant of decode_frame: the length check left out.
decode_frame_no_length_check(data) ==
    IF Len(data) < FRAME_MIN_LEN
    THEN Raise("ValueError", "TooShort")
    ELSE IF data[1] # PROTO_START
    THEN Raise("ValueError", "BadStart")
    ELSE LET addr == data[2]
             cmd == data[3]
             payload_len == data[4]
         IN  IF ~can_unpack(data, 4 + payload_len, 2)
             THEN Raise("struct.error", "unpack_from requires a buffer of at least 2 bytes")
             ELSE LET payload == slice(data, 4, 4 + payload_len)
                      crc_received == unpack_from_H(data, 4 + payload_len)
                      body == slice(data, 1, 4 + payload_len)
                      crc_computed == crc16_modbus(body)
                  IN  IF crc_received # crc_computed
                      THEN Raise("ValueError", "BadCrc")
                      ELSE IF ~is_valid_address(addr)
                      THEN Raise("ValueError", "AddrOutOfRange")
                      ELSE Return(Frame(addr, cmd, payload))

\* Mutant of decode_frame: the address range checked before the CRC.
decode_frame_addr_first(data) ==
    IF Len(data) < FRAME_MIN_LEN
    THEN Raise("ValueError", "TooShort")
    ELSE IF data[1] # PROTO_START
    THEN Raise("ValueError", "BadStart")
    ELSE LET addr == data[2]
             cmd == data[3]
             payload_len == data[4]
         IN  IF Len(data) # 4 + payload_len + 2
             THEN Raise("ValueError", "LengthMismatch")
             ELSE IF ~is_valid_address(addr)
             THEN Raise("ValueError", "AddrOutOfRange")
             ELSE LET payload == slice(data, 4, 4 + payload_len)
                      crc_received == unpack_from_H(data, 4 + payload_len)
                      body == slice(data, 1, 4 + payload_len)
                      crc_computed == crc16_modbus(body)
                  IN  IF crc_received # crc_computed
                      THEN Raise("ValueError", "BadCrc")
                      ELSE Return(Frame(addr, cmd, payload))

\* Mutant of decode_frame: the check of the address range left out.
decode_frame_no_addr_check(data) ==
    IF Len(data) < FRAME_MIN_LEN
    THEN Raise("ValueError", "TooShort")
    ELSE IF ~has_index(data, 0)
    THEN Raise("IndexError", "index out of range")
    ELSE IF data[1] # PROTO_START
    THEN Raise("ValueError", "BadStart")
    ELSE IF ~has_index(data, 3)
    THEN Raise("IndexError", "index out of range")
    ELSE LET addr == data[2]
             cmd == data[3]
             payload_len == data[4]
         IN  IF Len(data) # 4 + payload_len + 2
             THEN Raise("ValueError", "LengthMismatch")
             ELSE IF ~can_unpack(data, 4 + payload_len, 2)
             THEN Raise("struct.error", "unpack_from requires a buffer of at least 2 bytes")
             ELSE LET payload == slice(data, 4, 4 + payload_len)
                      crc_received == unpack_from_H(data, 4 + payload_len)
                      body == slice(data, 1, 4 + payload_len)
                      crc_computed == crc16_modbus(body)
                  IN  IF crc_received # crc_computed
                      THEN Raise("ValueError", "BadCrc")
                      ELSE Return(Frame(addr, cmd, payload))

decode_frame(data) ==
    IF Len(data) < FRAME_MIN_LEN
    THEN Raise("ValueError", "TooShort")
    ELSE IF ~has_index(data, 0)
    THEN Raise("IndexError", "index out of range")
    ELSE IF data[1] # PROTO_START
    THEN Raise("ValueError", "BadStart")
    ELSE IF ~has_index(data, 3)
    THEN Raise("IndexError", "index out of range")
    ELSE LET addr == data[2]
             cmd == data[3]
             payload_len == data[4]
         IN  IF Len(data) # 4 + payload_len + 2
             THEN Raise("ValueError", "LengthMismatch")
             ELSE IF ~can_unpack(data, 4 + payload_len, 2)
             THEN Raise("struct.error", "unpack_from requires a buffer of at least 2 bytes")
             ELSE LET payload == slice(data, 4, 4 + payload_len)
                      crc_received == unpack_from_H(data, 4 + payload_len)
                      body == slice(data, 1, 4 + payload_len)
                      crc_computed == crc16_modbus(body)
                  IN  IF crc_received # crc_computed
                      THEN Raise("ValueError", "BadCrc")
                      ELSE IF ~is_valid_address(addr)
                      THEN Raise("ValueError", "AddrOutOfRange")
                      ELSE Return(Frame(addr, cmd, payload))

\* Mutant of parse_reply: the sentinel is handed on as a temperature.
parse_reply_sentinel_as_value(payload) ==
    IF Len(payload) # PROTO_REPLY_PAYLOAD_LEN
    THEN Raise("ValueError", "BadPayloadLength")
    ELSE Return([k \in 1..4 |-> Some(unpack_from_h(payload, (k - 1) * 2))])

parse_reply(payload) ==
    IF Len(payload) # PROTO_REPLY_PAYLOAD_LEN
    THEN Raise("ValueError", "BadPayloadLength")
    ELSE IF \E i \in 0..3 : ~can_unpack(payload, i * 2, 2)
    THEN Raise("struct.error", "unpack_from requires a buffer of at least 2 bytes")
    ELSE Return([k \in 1..4 |->
            LET raw == unpack_from_h(payload, (k - 1) * 2)
            IN  IF raw # PROTO_TEMP_INVALID THEN Some(raw) ELSE None])

(***************************************************************************)
(* Inputs of the codec calls.                                              *)
(***************************************************************************)
\* all byte strings over `alphabet` of length 0..n
ByteSeqs(alphabet, n) == UNION {[1..k -> alphabet] : k \in 0..n}

\* struct.pack("<hhhh", t0, t1, t2, t3)
pack_hhhh(t) == pack_h(t[1]) \o pack_h(t[2]) \o pack_h(t[3]) \o pack_h(t[4])

\* a frame assembled by hand, without encode_frame's address check
forge_frame(addr, cmd, payload) ==
    LET body == <<addr, cmd, Len(payload)>> \o payload
    IN  <<PROTO_START>> \o body \o pack_H(crc16_modbus(body))

AddrInputs == {-1, 0, 1, 3, 10, 247, 248, 256}
CmdInputs == {PROTO_CMD_POLL, PROTO_CMD_REPLY, 255}
PayloadAlphabet == {0, 1, 127, 255}
SampleInputs == {-32768, -100, 0, 235, 32767}
SampleTuples == [1..4 -> SampleInputs]
Example2Payload == <<235, 0, 198, 0, 255, 127, 255, 127>>
Example2Body == <<3, 2, 8>> \o Example2Payload
\* ASCII "123456789", the check input of the CRC catalogues
CheckString == <<49, 50, 51, 52, 53, 54, 55, 56, 57>>

EncodePayloads ==
    ByteSeqs(PayloadAlphabet, MaxPayloadLen)
    \cup {pack_hhhh(t) : t \in [1..4 -> {-100, 32767}]}
    \cup {Example2Payload, [i \in 1..255 |-> i % 256], [i \in 1..256 |-> 0]}

ParsePayloads ==
    {pack_hhhh(t) : t \in SampleTuples}
    \cup ByteSeqs(PayloadAlphabet, MaxPayloadLen)
    \cup {[i \in 1..7 |-> 0], [i \in 1..9 |-> 0], [i \in 1..16 |-> 255]}

CrcInputs ==
    ByteSeqs(PayloadAlphabet, MaxPayloadLen + 1)
    \cup {<<3, 1, 0>>, Example2Body, CheckString}

\* the frames a device, or line noise shaped like one, can put on the wire
ForgedFrames ==
    {forge_frame(a, c, p) :
        a \in {0, 1, 3, 247, 248, 255},
        c \in {PROTO_CMD_POLL, PROTO_CMD_REPLY},
        p \in {<<>>, <<7>>, <<1, 2, 3>>, Example2Payload}}

\* one byte of f replaced by another value
Corrupted(f) ==
    {[f EXCEPT ![i] = (f[i] + d) % 256] : i \in 1..Len(f), d \in {1, 255}}

RawAlphabet == {0, 1, 33, 144}
RawInputs ==
    ByteSeqs(RawAlphabet, MaxRawLen)
    \cup ForgedFrames
    \cup UNION {Corrupted(f) : f \in ForgedFrames}
    \cup {SubSeq(f, 1, Len(f) - 1) : f \in ForgedFrames}
    \cup {f \o <<0>> : f \in ForgedFrames}

Call(fn, addr, cmd, bytes) ==
    [fn |-> fn, addr |-> addr, cmd |-> cmd, bytes |-> bytes]

CodecCalls ==
    {Call("crc16_modbus", 0, 0, d) : d \in CrcInputs}
    \cup {Call("encode_frame", a, c, p) :
            a \in AddrInputs, c \in CmdInputs, p \in EncodePayloads}
    \cup {Call("decode_frame", 0, 0, d) : d \in RawInputs}
    \cup {Call("parse_reply", 0, 0, p) : p \in ParsePayloads}

(***************************************************************************)
(* Store (storage.py): table readings as the committed rows plus the rows  *)
(* of the writer's open transaction.                                       *)
(***************************************************************************)
NUM_CHANNELS == 4

Row(id, ts, addr, temps) ==
    [id |-> id, ts |-> ts, addr |-> addr,
     temp_0 |-> temps[1], temp_1 |-> temps[2],
     temp_2 |-> temps[3], temp_3 |-> temps[4]]

\* the largest rowid in use (0 for an empty table)
max_rowid(rows) ==
    IF rows = <<>> THEN 0
    ELSE CHOOSE m \in {rows[i].id : i \in 1..Len(rows)} :
            \A i \in 1..Len(rows) : rows[i].id <= m

\* Mutant of storage_insert: a short or long list is cut or filled to four.
storage_insert_pads(committed, pending, addr, temps, ts) ==
    Return(Append(pending,
        Row(max_rowid(committed \o pending) + 1, ts, addr,
            [k \in 1..NUM_CHANNELS |->
                IF k <= Len(temps) THEN temps[k] ELSE None])))

\* Mutant of storage_insert: ids are counted per transaction.
storage_insert_rowid_per_transaction(committed, pending, addr, temps, ts) ==
    IF Len(temps) # NUM_CHANNELS
    THEN Raise("ValueError", "BadChannelCount")
    ELSE Return(Append(pending, Row(max_rowid(pending) + 1, ts, addr, temps)))

\* Storage.insert: the writer's transaction after the call, or the error.
\* id INTEGER PRIMARY KEY takes the largest rowid the writer sees, plus one.
storage_insert(committed, pending, addr, temps, ts) ==
    IF Len(temps) # NUM_CHANNELS
    THEN Raise("ValueError", "BadChannelCount")
    ELSE Return(Append(pending,
            Row(max_rowid(committed \o pending) + 1, ts, addr, temps)))

\* Mutant of storage_commit: only the first row of the transaction is flushed.
storage_commit_first_only(committed, pending) ==
    committed \o SubSeq(pending, 1, Min(1, Len(pending)))

\* Storage.commit: the committed rows after the call.
storage_commit(committed, pending) == committed \o pending

\* Mutant of storage_close: the open transaction is flushed.
storage_close_flushes(committed, pending) == committed \o pending

\* Storage.close (and the end of the process): the rows of the table once the
\* connection is gone.  sqlite3 rolls an open transaction back.
storage_close(committed, pending) == committed

SECONDS_PER_DAY == 86400
RETENTION_DAYS == 365

\* Mutant of storage_purge: rows exactly at the cutoff are deleted as well.
storage_purge_inclusive(committed, pending, days, t) ==
    LET cutoff == t - days * SECONDS_PER_DAY
        rows == committed \o pending
        kept(r) == r.ts > cutoff
    IN  [rows |-> SelectSeq(rows, kept),
         deleted |-> Len(rows) - Len(SelectSeq(rows, kept))]

\* Storage.purge at time t: the rows left in the table (the DELETE runs in the
\* writer's transaction, which purge then commits) and cursor.rowcount.
storage_purge(committed, pending, days, t) ==
    LET cutoff == t - days * SECONDS_PER_DAY
        rows == committed \o pending
        kept(r) == ~(r.ts < cutoff)
    IN  [rows |-> SelectSeq(rows, kept),
         deleted |-> Len(rows) - Len(SelectSeq(rows, kept))]

\* ORDER BY id DESC
RECURSIVE order_by_id_desc(_)
order_by_id_desc(rows) ==
    IF rows = <<>> THEN <<>>
    ELSE LET top == max_rowid(rows)
             is_top(r) == r.id = top
             rest(r) == r.id # top
         IN  SelectSeq(rows, is_top) \o order_by_id_desc(SelectSeq(rows, rest))

\* LIMIT ?: a negative limit is no limit
limit(rows, count) ==
    IF count < 0 THEN rows ELSE SubSeq(rows, 1, Min(count, Len(rows)))

\* Mutant of storage_fetch: oldest first.
storage_fetch_oldest_first(committed, pending, count) ==
    limit(committed \o pending, count)

\* Storage.fetch on the writer's connection: the newest `count` rows it sees,
\* newest first.
storage_fetch(committed, pending, count) ==
    limit(order_by_id_desc(committed \o pending), count)

(***************************************************************************)
(* Poll engine (serial_poller.py).                                         *)
(***************************************************************************)
Reading(addr, temps) ==
    [kind |-> "Reading", addr |-> addr,
     temp_0 |-> temps[1], temp_1 |-> temps[2],
     temp_2 |-> temps[3], temp_3 |-> temps[4]]

\* "return None", with the message logged at debug level
Absent(why) == [kind |-> "None", why |-> why]

\* Mutant of poll_reply: the check of the command byte left out.
poll_reply_no_cmd_check(addr, raw) ==
    IF raw = <<>>
    THEN Return(Absent("timeout"))
    ELSE LET reply == decode_frame(raw) IN
         IF ~reply.ok
         THEN IF reply.exc = "ValueError"
              THEN Return(Absent("bad frame"))
              ELSE Raise(reply.exc, reply.reason)
         ELSE IF reply.val.addr # addr
         THEN Return(Absent("addr mismatch"))
         ELSE IF Len(reply.val.payload) # PROTO_REPLY_PAYLOAD_LEN
         THEN Return(Absent("bad payload length"))
         ELSE LET temps == parse_reply(reply.val.payload) IN
              IF ~temps.ok
              THEN Raise(temps.exc, temps.reason)
              ELSE Return(Reading(addr, temps.val))

\* Mutant of poll_reply: the check of the replying address left out.
poll_reply_no_addr_check(addr, raw) ==
    IF raw = <<>>
    THEN Return(Absent("timeout"))
    ELSE LET reply == decode_frame(raw) IN
         IF ~reply.ok
         THEN IF reply.exc = "ValueError"
              THEN Return(Absent("bad frame"))
              ELSE Raise(reply.exc, reply.reason)
         ELSE IF reply.val.cmd # PROTO_CMD_REPLY
         THEN Return(Absent("unexpected cmd"))
         ELSE IF Len(reply.val.payload) # PROTO_REPLY_PAYLOAD_LEN
         THEN Return(Absent("bad payload length"))
         ELSE LET temps == parse_reply(reply.val.payload) IN
              IF ~temps.ok
              THEN Raise(temps.exc, temps.reason)
              ELSE Return(Reading(addr, temps.val))

\* Poller.poll from the value of receive() on: what poll(addr) returns or
\* raises when the link hands back `raw`.
poll_reply(addr, raw) ==
    IF raw = <<>>
    THEN Return(Absent("timeout"))
    ELSE LET reply == decode_frame(raw) IN
         IF ~reply.ok
         THEN IF reply.exc = "ValueError"
              THEN Return(Absent("bad frame"))
              ELSE Raise(reply.exc, reply.reason)
         ELSE IF reply.val.addr # addr
         THEN Return(Absent("addr mismatch"))
         ELSE IF reply.val.cmd # PROTO_CMD_REPLY
         THEN Return(Absent("unexpected cmd"))
         ELSE IF Len(reply.val.payload) # PROTO_REPLY_PAYLOAD_LEN
         THEN Return(Absent("bad payload length"))
         ELSE LET temps == parse_reply(reply.val.payload) IN
              IF ~temps.ok
              THEN Raise(temps.exc, temps.reason)
              ELSE Return(Reading(addr, temps.val))

\* UDPListener.receive from the value of recv() on: what receive() returns
\* or raises when the datagram link hands back `raw`.
process_frame_no_cmd_check(raw) ==
    IF raw = <<>>
    THEN Return(Absent("timeout"))
    ELSE LET frame == decode_frame(raw) IN
         IF ~frame.ok
         THEN IF frame.exc = "ValueError"
              THEN Return(Absent("bad frame"))
              ELSE Raise(frame.exc, frame.reason)
         ELSE IF Len(frame.val.payload) # PROTO_REPLY_PAYLOAD_LEN
         THEN Return(Absent("bad payload length"))
         ELSE LET temps == parse_reply(frame.val.payload) IN
              IF ~temps.ok
              THEN Raise(temps.exc, temps.reason)
              ELSE Return(Reading(frame.val.addr, temps.val))

process_frame(raw) ==
    IF raw = <<>>
    THEN Return(Absent("timeout"))
    ELSE LET frame == decode_frame(raw) IN
         IF ~frame.ok
         THEN IF frame.exc = "ValueError"
              THEN Return(Absent("bad frame"))
              ELSE Raise(frame.exc, frame.reason)
         ELSE IF frame.val.cmd # PROTO_CMD_REPLY
         THEN Return(Absent("unexpected cmd"))
         ELSE IF Len(frame.val.payload) # PROTO_REPLY_PAYLOAD_LEN
         THEN Return(Absent("bad payload length"))
         ELSE LET temps == parse_reply(frame.val.payload) IN
              IF ~temps.ok
              THEN Raise(temps.exc, temps.reason)
              ELSE Return(Reading(frame.val.addr, temps.val))

\* "for addr in self._clients": the position after the one just polled
next_idx(i, out) == i + 1

\* the address lists a configuration file can hold: non-empty lists of ints
ClientLists ==
    {<<3>>, <<3, 5>>, <<5, 3>>, <<1, 247>>, <<3, 0, 5>>, <<248>>}

ReplyTemps == {<<235, 198, 32767, 32767>>, <<-100, 0, 32767, -32768>>}

\* what receive() may hand back: nothing, replies of devices (also of devices
\* that were not asked), other frames, damaged frames, noise
LinkReplies ==
    {<<>>}
    \cup {forge_frame(a, PROTO_CMD_REPLY, pack_hhhh(t)) :
            a \in {0, 1, 3, 5, 247}, t \in ReplyTemps}
    \cup {forge_frame(3, PROTO_CMD_POLL, <<>>),
          forge_frame(3, PROTO_CMD_POLL, Example2Payload),
          forge_frame(3, 255, Example2Payload),
          forge_frame(3, PROTO_CMD_REPLY, <<>>),
          forge_frame(3, PROTO_CMD_REPLY, <<1, 2, 3, 4, 5, 6, 7>>),
          forge_frame(5, PROTO_CMD_REPLY, <<1, 2, 3, 4, 5, 6, 7, 8, 9>>)}
    \cup {[forge_frame(3, PROTO_CMD_REPLY, Example2Payload) EXCEPT ![14] = 0],
          SubSeq(forge_frame(3, PROTO_CMD_REPLY, Example2Payload), 1, 13),
          <<255>>, <<1, 3, 2, 8>>}

NoPoll == [addr |-> 0, raw |-> <<>>, out |-> NoRet]
NoRecv == [raw |-> <<>>, out |-> NoRet]
NoSignal == [pc |-> "none", idx |-> 0, cycles |-> 0, receives |-> 0]

\* a WifiBus right after __init__ and a Listener right after __init__
WifiAddrs == {3, 5}
SeenAddrs == {1, 3, 5, 247}
NoConn == [st |-> "none", addr |-> 0, buf |-> <<>>, peer |-> "up"]
NoCall == [op |-> "none", conn |-> 0, addr |-> 0, ok |-> TRUE, data |-> <<>>]
WifiIdle ==
    /\ w_sockets = [a \in WifiAddrs |-> 0]
    /\ w_conns = [c \in 1..MaxConns |-> NoConn]
    /\ w_running = TRUE
    /\ w_server = "open"
    /\ acc_pc = "head"
    /\ acc_conn = 0
    /\ w_pc = "idle"
    /\ w_sock = 0
    /\ w_cur = 0
    /\ w_hdr = <<>>
    /\ w_line = <<>>
    /\ w_last = NoCall
    /\ last_seen = [a \in SeenAddrs |-> None]

\* the poller before its first cycle, over an empty store
PollerIdle ==
    /\ WifiIdle
    /\ pc = "idle"
    /\ idx = 1
    /\ results = <<>>
    /\ db_committed = <<>>
    /\ db_pending = <<>>
    /\ now = 0
    /\ bus_log = <<>>
    /\ cycle_polls = <<>>
    /\ last_poll = NoPoll
    /\ cycles = 0
    /\ store_calls = <<>>
    /\ ins_log = <<>>
    /\ receives = 0
    /\ last_recv = NoRecv
    /\ wait_until = 0
    /\ shutdown = FALSE
    /\ sig_at = NoSignal
    /\ closes = <<>>
    /\ ser_in = <<>>
    /\ ser_line = <<>>
    /\ ser_log = <<>>
    /\ ser_pc = "idle"
    /\ ser_ret = <<>>

(***************************************************************************)
(* The codec as a state machine: a call is chosen, then it runs.           *)
(***************************************************************************)
InitCodec ==
    /\ call \in CodecCalls
    /\ ret = NoRet
    /\ clients = <<>>
    /\ transport = "none"
    /\ link_replies = {}
    /\ interval = 0
    /\ purges = <<>>
    /\ PollerIdle

Pending(fn) == call.fn = fn /\ ret = NoRet

CallCrc ==
    /\ Pending("crc16_modbus")
    /\ ret' = Return(crc16_modbus(call.bytes))
    /\ UNCHANGED <<call, pollVars>>

CallEncode ==
    /\ Pending("encode_frame")
    /\ ret' = encode_frame(call.addr, call.cmd, call.bytes)
    /\ UNCHANGED <<call, pollVars>>

CallDecode ==
    /\ Pending("decode_frame")
    /\ ret' = decode_frame(call.bytes)
    /\ UNCHANGED <<call, pollVars>>

CallParseReply ==
    /\ Pending("parse_reply")
    /\ ret' = parse_reply(call.bytes)
    /\ UNCHANGED <<call, pollVars>>

NextCodec == CallCrc \/ CallEncode \/ CallDecode \/ CallParseReply

SpecCodec == InitCodec /\ [][NextCodec]_vars

(***************************************************************************)
(* The poll engine as a state machine: poll_all cycles over the link.      *)
(***************************************************************************)
Init ==
    /\ call = Call("none", 0, 0, <<>>)
    /\ ret = NoRet
    /\ \/ transport = "rs485" /\ clients \in ClientLists
       \/ transport = "wifi" /\ clients = <<>>
    /\ link_replies = LinkReplies
    /\ interval = 0
    /\ purges = <<[days |-> RETENTION_DAYS]>>
    /\ PollerIdle

\* who answered: the address of a frame that decodes as a REPLY, else 0
replier(raw) ==
    LET reply == decode_frame(raw)
    IN  IF reply.ok /\ reply.val.cmd = PROTO_CMD_REPLY THEN reply.val.addr ELSE 0

\* poll_reply and replier tabulated over the addresses and replies of the
\* model, so that each frame is decoded once and not once per step
PolledAddrs == UNION {{cl[i] : i \in 1..Len(cl)} : cl \in ClientLists}
poll_outcome == [a \in PolledAddrs |-> [r \in LinkReplies |-> poll_reply(a, r)]]
reply_from == [r \in LinkReplies |-> replier(r)]
listen_outcome == [r \in LinkReplies |-> process_frame(r)]
poll_request == [a \in PolledAddrs |-> encode_frame(a, PROTO_CMD_POLL, <<>>)]

\* "while not shutdown.is_set()" at the head of run_poller's and of
\* run_listener's loop
loop_continues_always(flag) == TRUE

loop_continues(flag) == ~flag

\* run_poller's loop goes round: poll_all is entered, results = []
PollAllStart ==
    /\ transport = "rs485"
    /\ pc = "idle"
    /\ loop_continues(shutdown)
    /\ cycles < MaxCycles
    /\ results' = <<>>
    /\ idx' = 1
    /\ bus_log' = <<>>
    /\ cycle_polls' = <<>>
    /\ store_calls' = <<>>
    /\ pc' = IF Len(clients) = 0 THEN "commit" ELSE "send"
    /\ UNCHANGED <<codecVars, clients, db_committed, db_pending, now,
                   last_poll, cycles, transport, ins_log, receives,
                   last_recv, link_replies, mainVars, busVars>>

\* poll(addr), first half: encode the POLL frame and send it
PollSend ==
    /\ pc = "send"
    /\ LET frame == poll_request[clients[idx]]
       IN  IF frame.ok
           THEN /\ bus_log' = Append(bus_log, [op |-> "send", data |-> frame.val])
                /\ pc' = "receive"
           ELSE /\ pc' = "raised"
                /\ UNCHANGED bus_log
    /\ UNCHANGED <<codecVars, clients, idx, results, db_committed, db_pending,
                   now, cycle_polls, last_poll, cycles, transport, store_calls,
                   ins_log, receives,
                   last_recv, link_replies, mainVars, busVars>>

\* poll(addr), second half: receive, validate; then poll_all's insert
PollReceive ==
    /\ pc = "receive"
    /\ \E raw \in link_replies :
        LET addr == clients[idx]
            out == poll_outcome[addr][raw]
            ins == storage_insert(db_committed, db_pending, out.val.addr,
                        <<out.val.temp_0, out.val.temp_1,
                          out.val.temp_2, out.val.temp_3>>, now)
            stored == out.ok /\ out.val.kind = "Reading"
        IN  /\ bus_log' = Append(bus_log, [op |-> "receive", data |-> <<>>])
            /\ last_poll' = [addr |-> addr, raw |-> raw, out |-> out]
            /\ cycle_polls' = Append(cycle_polls,
                    [addr |-> addr, from |-> reply_from[raw], stored |-> stored])
            /\ IF ~out.ok
               THEN /\ pc' = "raised"
                    /\ UNCHANGED <<idx, results, db_pending, store_calls,
                                   ins_log>>
               ELSE IF ~stored
               THEN /\ idx' = next_idx(idx, out)
                    /\ pc' = IF idx' > Len(clients) THEN "commit" ELSE "send"
                    /\ UNCHANGED <<results, db_pending, store_calls, ins_log>>
               ELSE IF ~ins.ok
               THEN /\ pc' = "raised"
                    /\ UNCHANGED <<idx, results, db_pending, store_calls,
                                   ins_log>>
               ELSE /\ db_pending' = ins.val
                    /\ store_calls' = Append(store_calls,
                            [op |-> "insert", id |-> ins.val[Len(ins.val)].id])
                    /\ ins_log' = Append(ins_log,
                            [id |-> ins.val[Len(ins.val)].id,
                             cycle |-> cycles + 1, pos |-> idx, raw |-> raw])
                    /\ results' = Append(results, out.val)
                    /\ idx' = next_idx(idx, out)
                    /\ pc' = IF idx' > Len(clients) THEN "commit" ELSE "send"
    /\ UNCHANGED <<codecVars, clients, db_committed, now, cycles, transport,
                   receives,
                   last_recv, link_replies, mainVars, busVars>>

\* poll_all after the loop: commit, return results; run_poller counts the
\* cycle and, when the interval is positive, enters shutdown.wait(interval)
PollAllCommit ==
    /\ pc = "commit"
    /\ db_committed' = storage_commit(db_committed, db_pending)
    /\ db_pending' = <<>>
    /\ store_calls' = Append(store_calls, [op |-> "commit"])
    /\ cycles' = cycles + 1
    /\ IF interval > 0
       THEN pc' = "wait" /\ wait_until' = now + interval
       ELSE pc' = "idle" /\ UNCHANGED wait_until
    /\ UNCHANGED <<codecVars, clients, idx, results, now, bus_log,
                   cycle_polls, last_poll, transport, ins_log, receives,
                   last_recv, link_replies, interval, shutdown, sig_at,
                   purges, closes, busVars>>

\* the wall clock advances
Tick ==
    /\ now < MaxNow
    /\ now' = now + 1
    /\ UNCHANGED <<codecVars, clients, pc, idx, results, db_committed,
                   db_pending, bus_log, cycle_polls, last_poll, cycles,
                   transport, store_calls, ins_log, receives,
                   last_recv, link_replies, mainVars, busVars>>

\* the close calls of main's finally clause, in order: receiver.close() or
\* bus.close(), then storage.close()
main_finally_store_first(done) == done \o <<"store", "link">>

main_finally(done) == done \o <<"link", "store">>

\* main: run_poller or run_listener is left, by an exception or by its
\* return; the finally clause closes the link and then the store
MainFinally ==
    /\ pc \in {"raised", "returned"}
    /\ closes' = main_finally(closes)
    /\ db_committed' = storage_close(db_committed, db_pending)
    /\ db_pending' = <<>>
    /\ pc' = "closed"
    /\ UNCHANGED <<codecVars, clients, idx, results, now, bus_log,
                   cycle_polls, last_poll, cycles, transport, store_calls,
                   ins_log, receives, last_recv, link_replies, interval,
                   wait_until, shutdown, sig_at, purges, busVars>>

\* UDPListener.receive: one datagram (or none) is taken and processed; a
\* Reading is inserted and committed at once
ListenerReceive ==
    /\ transport = "wifi"
    /\ pc = "idle"
    /\ loop_continues(shutdown)
    /\ receives < MaxReceives
    /\ receives' = receives + 1
    /\ \E raw \in link_replies :
        LET out == listen_outcome[raw]
            ins == storage_insert(db_committed, db_pending, out.val.addr,
                        <<out.val.temp_0, out.val.temp_1,
                          out.val.temp_2, out.val.temp_3>>, now)
            stored == out.ok /\ out.val.kind = "Reading"
        IN  /\ last_recv' = [raw |-> raw, out |-> out]
            /\ IF ~out.ok \/ (stored /\ ~ins.ok)
               THEN /\ pc' = "raised"
                    /\ store_calls' = <<>>
                    /\ UNCHANGED <<db_committed, db_pending, ins_log>>
               ELSE IF ~stored
               THEN /\ store_calls' = <<>>
                    /\ UNCHANGED <<pc, db_committed, db_pending, ins_log>>
               ELSE /\ db_committed' = storage_commit(db_committed, ins.val)
                    /\ db_pending' = <<>>
                    /\ store_calls' =
                           <<[op |-> "insert", id |-> ins.val[Len(ins.val)].id],
                             [op |-> "commit"]>>
                    /\ ins_log' = Append(ins_log,
                           [id |-> ins.val[Len(ins.val)].id,
                            cycle |-> receives + 1, pos |-> 1, raw |-> raw])
                    /\ UNCHANGED pc
    /\ UNCHANGED <<codecVars, clients, idx, results, now, bus_log,
                   cycle_polls, last_poll, cycles, transport,
                   link_replies, mainVars, busVars>>

\* how long the daemon may stay down between two runs: no time, or longer
\* than the retention period
Downtimes == {0, (RETENTION_DAYS + 1) * SECONDS_PER_DAY}

\* the daemon has stopped (between two cycles or receives, or through main's
\* finally clause) and is started again on the same database: main opens the
\* store and purges it once before it enters its loop.  ins_log keeps the
\* entries of the rows that are still in the table.
Restart ==
    /\ transport \in {"rs485", "wifi"}
    /\ pc \in {"idle", "closed"}
    /\ \E down \in Downtimes :
        /\ down = 0 \/ now < down
        /\ now' = now + down
        /\ LET p == storage_purge(storage_close(db_committed, db_pending),
                                  <<>>, RETENTION_DAYS, now')
               left(e) == \E k \in 1..Len(p.rows) : p.rows[k].id = e.id
           IN  /\ db_committed' = p.rows
               /\ db_pending' = <<>>
               /\ ins_log' = SelectSeq(ins_log, left)
    /\ pc' = "idle"
    /\ shutdown' = FALSE
    /\ sig_at' = NoSignal
    /\ purges' = <<[days |-> RETENTION_DAYS]>>
    /\ closes' = <<>>
    /\ UNCHANGED <<codecVars, clients, idx, results, bus_log, cycle_polls,
                   last_poll, cycles, transport, store_calls, receives,
                   last_recv, link_replies, interval, wait_until, busVars>>

Next ==
    \/ PollAllStart \/ PollSend \/ PollReceive \/ PollAllCommit \/ Tick
    \/ MainFinally \/ ListenerReceive \/ Restart

Spec == Init /\ [][Next]_vars

(***************************************************************************)
(* The store as a state machine: any sequence of calls of its API by one   *)
(* writer, with the clock advancing and the writer crashing and reopening. *)
(***************************************************************************)
InsertAddrs == {3}
InsertTemps ==
    {<<Some(235), Some(198), None, None>>,
     <<>>,
     <<Some(235), Some(198), None>>,
     <<Some(235), Some(198), None, None, None>>}
PurgeDays == {0, 1}
FetchCounts == {-1, 0, 2, 10}
ClockSteps == {1, SECONDS_PER_DAY}

StoreCall(fn, addr, arg) == [fn |-> fn, addr |-> addr, arg |-> arg]

\* Storage.__init__ on a new database
InitStore ==
    /\ call = StoreCall("__init__", 0, <<>>)
    /\ ret = NoRet
    /\ clients = <<>>
    /\ transport = "none"
    /\ link_replies = {}
    /\ interval = 0
    /\ purges = <<>>
    /\ PollerIdle

storeFrame == <<clients, pc, idx, results, bus_log, cycle_polls, last_poll,
                cycles, transport, ins_log, receives, last_recv, link_replies,
                mainVars, busVars>>

StoreInsert ==
    /\ Len(store_calls) < MaxStoreCalls
    /\ \E addr \in InsertAddrs, temps \in InsertTemps :
        LET ins == storage_insert(db_committed, db_pending, addr, temps, now)
        IN  /\ call' = StoreCall("insert", addr, temps)
            /\ IF ins.ok
               THEN /\ ret' = Return("None")
                    /\ db_pending' = ins.val
                    /\ store_calls' = Append(store_calls,
                            [op |-> "insert", id |-> ins.val[Len(ins.val)].id])
               ELSE /\ ret' = ins
                    /\ UNCHANGED <<db_pending, store_calls>>
    /\ UNCHANGED <<db_committed, now, storeFrame>>

StoreCommit ==
    /\ Len(store_calls) < MaxStoreCalls
    /\ call' = StoreCall("commit", 0, <<>>)
    /\ ret' = Return("None")
    /\ db_committed' = storage_commit(db_committed, db_pending)
    /\ db_pending' = <<>>
    /\ store_calls' = Append(store_calls, [op |-> "commit"])
    /\ UNCHANGED <<now, storeFrame>>

StorePurge ==
    /\ Len(store_calls) < MaxStoreCalls
    /\ \E days \in PurgeDays :
        LET p == storage_purge(db_committed, db_pending, days, now)
        IN  /\ call' = StoreCall("purge", 0, days)
            /\ ret' = Return(p.deleted)
            /\ db_committed' = p.rows
            /\ db_pending' = <<>>
            /\ store_calls' = Append(store_calls,
                    [op |-> "purge", days |-> days, at |-> now])
    /\ UNCHANGED <<now, storeFrame>>

StoreFetch ==
    /\ \E count \in FetchCounts :
        /\ call' = StoreCall("fetch", 0, count)
        /\ ret' = Return(storage_fetch(db_committed, db_pending, count))
    /\ UNCHANGED <<db_committed, db_pending, now, store_calls, storeFrame>>

\* the writer dies (or closes the store) and the database is opened again
StoreCrash ==
    /\ Len(store_calls) < MaxStoreCalls
    /\ call' = StoreCall("__init__", 0, <<>>)
    /\ ret' = NoRet
    /\ db_committed' = storage_close(db_committed, db_pending)
    /\ db_pending' = <<>>
    /\ store_calls' = Append(store_calls, [op |-> "crash"])
    /\ UNCHANGED <<now, storeFrame>>

\* the wall clock advances by a second or by a day
StoreTick ==
    /\ (now \div SECONDS_PER_DAY) + (now % SECONDS_PER_DAY) < MaxNow
    /\ \E step \in ClockSteps : now' = now + step
    /\ UNCHANGED <<codecVars, db_committed, db_pending, store_calls,
                   storeFrame>>

\* time.time() is the wall clock: an administrator or a time daemon sets it
\* back (here by a second, and not below the day it is in)
StoreClockBack ==
    /\ now % SECONDS_PER_DAY > 0
    /\ now' = now - 1
    /\ UNCHANGED <<codecVars, db_committed, db_pending, store_calls,
                   storeFrame>>

NextStore ==
    \/ StoreInsert \/ StoreCommit \/ StorePurge \/ StoreFetch
    \/ StoreCrash \/ StoreTick \/ StoreClockBack

SpecStore == InitStore /\ [][NextStore]_vars

(***************************************************************************)
(* The supervisor as a state machine: one run of main, from the opening of *)
(* the store to the end of its finally clause, with the shutdown signal    *)
(* arriving at any point of the loop.                                      *)
(***************************************************************************)
MainClients == {<<3, 5>>, <<5, 0>>}
MainReplies ==
    {<<>>, <<255>>,
     forge_frame(3, PROTO_CMD_REPLY, pack_hhhh(<<235, 198, 32767, 32767>>)),
     forge_frame(5, PROTO_CMD_REPLY, pack_hhhh(<<235, 198, 32767, 32767>>))}
Intervals == {0, 1}

\* the clock when main starts, and the rows earlier runs may have left: none,
\* one older than the retention period, or an old one and a recent one
StartTime == (RETENTION_DAYS + 1) * SECONDS_PER_DAY
StoreLeft ==
    {<<>>,
     <<Row(1, 0, 3, <<Some(235), Some(198), None, None>>)>>,
     <<Row(1, 0, 3, <<Some(235), Some(198), None, None>>),
       Row(2, StartTime - 1, 5, <<Some(235), Some(198), None, None>>)>>}

\* main before it opens the store
InitMain ==
    /\ call = Call("none", 0, 0, <<>>)
    /\ ret = NoRet
    /\ \/ transport = "rs485" /\ clients \in MainClients
       \/ transport = "wifi" /\ clients = <<>>
    /\ link_replies = MainReplies
    /\ interval \in Intervals
    /\ db_committed \in StoreLeft
    /\ db_pending = <<>>
    /\ now = StartTime
    /\ pc = "main"
    /\ idx = 1
    /\ results = <<>>
    /\ bus_log = <<>>
    /\ cycle_polls = <<>>
    /\ last_poll = NoPoll
    /\ cycles = 0
    /\ store_calls = <<>>
    /\ ins_log = <<>>
    /\ receives = 0
    /\ last_recv = NoRecv
    /\ wait_until = 0
    /\ shutdown = FALSE
    /\ sig_at = NoSignal
    /\ purges = <<>>
    /\ closes = <<>>
    /\ ser_in = <<>>
    /\ ser_line = <<>>
    /\ ser_log = <<>>
    /\ ser_pc = "idle"
    /\ ser_ret = <<>>
    /\ WifiIdle

\* main: storage = Storage(cfg["db"]); storage.purge(_RETENTION_DAYS)
main_open_no_purge(committed, t) == [rows |-> committed, purges |-> <<>>]

main_open(committed, t) ==
    LET p == storage_purge(committed, <<>>, RETENTION_DAYS, t)
    IN  [rows |-> p.rows, purges |-> <<[days |-> RETENTION_DAYS]>>]

\* main up to the call of run_poller or run_listener: the store is opened and
\* purged, the signal handlers are installed, the link is opened
MainStart ==
    /\ pc = "main"
    /\ LET o == main_open(db_committed, now)
       IN  /\ db_committed' = o.rows
           /\ purges' = purges \o o.purges
    /\ pc' = "idle"
    /\ UNCHANGED <<codecVars, clients, idx, results, db_pending, now, bus_log,
                   cycle_polls, last_poll, cycles, transport, store_calls,
                   ins_log, receives, last_recv, link_replies, interval,
                   wait_until, shutdown, sig_at, closes, busVars>>

\* _on_signal: SIGINT or SIGTERM arrives while run_poller or run_listener
\* runs, and the flag is set
Signal ==
    /\ pc \in {"idle", "send", "receive", "commit", "wait"}
    /\ ~shutdown
    /\ shutdown' = TRUE
    /\ sig_at' = [pc |-> pc, idx |-> idx, cycles |-> cycles,
                  receives |-> receives]
    /\ UNCHANGED <<codecVars, clients, pc, idx, results, db_committed,
                   db_pending, now, bus_log, cycle_polls, last_poll, cycles,
                   transport, store_calls, ins_log, receives, last_recv,
                   link_replies, interval, wait_until, purges, closes,
                   busVars>>

\* shutdown.wait(remaining) returns: the flag is set or the interval is over
wait_over_sleeps(flag, t, deadline) == t >= deadline

wait_over(flag, t, deadline) == flag \/ t >= deadline

WaitReturn ==
    /\ pc = "wait"
    /\ wait_over(shutdown, now, wait_until)
    /\ pc' = "idle"
    /\ UNCHANGED <<codecVars, clients, idx, results, db_committed,
                   db_pending, now, bus_log, cycle_polls, last_poll, cycles,
                   transport, store_calls, ins_log, receives, last_recv,
                   link_replies, mainVars, busVars>>

\* the clock advances while run_poller waits
MainTick ==
    /\ pc = "wait"
    /\ now < wait_until
    /\ now' = now + 1
    /\ UNCHANGED <<codecVars, clients, pc, idx, results, db_committed,
                   db_pending, bus_log, cycle_polls, last_poll, cycles,
                   transport, store_calls, ins_log, receives, last_recv,
                   link_replies, mainVars, busVars>>

\* the loop of run_poller or run_listener finds the flag set: "return cycles",
\* "return count"
RunReturn ==
    /\ pc = "idle"
    /\ ~loop_continues(shutdown)
    /\ pc' = "returned"
    /\ call' = Call(IF transport = "rs485" THEN "run_poller"
                    ELSE "run_listener", 0, 0, <<>>)
    /\ ret' = Return(IF transport = "rs485" THEN cycles ELSE Len(ins_log))
    /\ UNCHANGED <<clients, idx, results, db_committed, db_pending, now,
                   bus_log, cycle_polls, last_poll, cycles, transport,
                   store_calls, ins_log, receives, last_recv, link_replies,
                   mainVars, busVars>>

NextMain ==
    \/ MainStart \/ Signal \/ PollAllStart \/ PollSend \/ PollReceive
    \/ PollAllCommit \/ WaitReturn \/ MainTick \/ ListenerReceive
    \/ RunReturn \/ MainFinally

SpecMain == InitMain /\ [][NextMain]_vars

\* every call of the loop returns: a poll or a commit that has begun is
\* completed, a wait that may return does return, and so does the loop once
\* it finds the flag set.  Nothing is assumed of the signal or of the clock.
SpecMainLive ==
    /\ SpecMain
    /\ WF_vars(PollSend)
    /\ WF_vars(PollReceive)
    /\ WF_vars(PollAllCommit)
    /\ WF_vars(WaitReturn)
    /\ WF_vars(RunReturn)

(***************************************************************************)
(* The master daemon (master tmon/daemon.py with tmon/poller.py): run_poll *)
(* over the master's Poller, whose readings carry a status byte, and whose *)
(* poll_all inserts without committing.                                    *)
(***************************************************************************)
MasterReading(addr, status, temps) ==
    [kind |-> "Reading", addr |-> addr, status |-> status,
     temp_0 |-> temps[1], temp_1 |-> temps[2],
     temp_2 |-> temps[3], temp_3 |-> temps[4]]

\* status & (1 << i)
status_bit(status, i) == (status \div (2 ^ i)) % 2 = 1

\* one round of poll's loop "for i in range(4)": the value appended to temps
master_channel(payload, i) ==
    LET raw_val == unpack_from_h(payload, 1 + i * 2)
    IN  IF status_bit(payload[1], i) /\ raw_val # PROTO_TEMP_INVALID
        THEN Some(raw_val) ELSE None

\* poll's loop over the four channels: struct.unpack_from raises struct.error
\* when fewer than two bytes are left at the offset
master_temps(payload) ==
    IF \E i \in 0..3 : ~can_unpack(payload, 1 + i * 2, 2)
    THEN Raise("struct.error", "unpack_from requires a buffer")
    ELSE Return([k \in 1..4 |-> master_channel(payload, k - 1)])

\* the master's Poller.poll from the value of receive() on
master_poll_reply(addr, raw) ==
    IF raw = <<>>
    THEN Return(Absent("timeout"))
    ELSE LET reply == decode_frame(raw) IN
         IF ~reply.ok
         THEN IF reply.exc = "ValueError"
              THEN Return(Absent("bad frame"))
              ELSE Raise(reply.exc, reply.reason)
         ELSE IF reply.val.addr # addr
         THEN Return(Absent("addr mismatch"))
         ELSE IF reply.val.cmd # PROTO_CMD_REPLY
         THEN Return(Absent("unexpected cmd"))
         ELSE IF Len(reply.val.payload) # PROTO_REPLY_PAYLOAD_LEN
         THEN Return(Absent("bad payload length"))
         ELSE LET temps == master_temps(reply.val.payload) IN
              IF ~temps.ok
              THEN Raise(temps.exc, temps.reason)
              ELSE Return(MasterReading(addr, reply.val.payload[1], temps.val))

MasterSlaves == {<<3>>, <<3, 5>>, <<5, 3>>}
MasterReplies ==
    MainReplies
    \cup {forge_frame(3, PROTO_CMD_REPLY, pack_hhhh(<<-100, 0, 32767, -32768>>)),
          forge_frame(3, PROTO_CMD_REPLY, <<1, 2, 3, 4, 5, 6, 7>>),
          forge_frame(3, PROTO_CMD_POLL, <<>>)}
MasterAddrs == UNION {{cl[i] : i \in 1..Len(cl)} : cl \in MasterSlaves}
master_poll_outcome ==
    [a \in MasterAddrs |-> [r \in MasterReplies |-> master_poll_reply(a, r)]]

\* main has opened the store and the link and is about to call run_poll
InitMaster ==
    /\ call = Call("none", 0, 0, <<>>)
    /\ ret = NoRet
    /\ transport = "master"
    /\ clients \in MasterSlaves
    /\ link_replies = MasterReplies
    /\ interval \in Intervals
    /\ purges = <<>>
    /\ PollerIdle

\* run_poll after poll_all has returned: the cycle is counted and the loop
\* waits for the interval
cycle_done(t, wait) ==
    [pc |-> IF wait > 0 THEN "wait" ELSE "idle", wait_until |-> t + wait]

\* run_poll's loop goes round: poll_all is entered, results = []
MasterPollAllStart ==
    /\ transport = "master"
    /\ pc = "idle"
    /\ loop_continues(shutdown)
    /\ cycles < MaxCycles
    /\ results' = <<>>
    /\ idx' = 1
    /\ bus_log' = <<>>
    /\ cycle_polls' = <<>>
    /\ store_calls' = <<>>
    /\ pc' = "send"
    /\ UNCHANGED <<codecVars, clients, db_committed, db_pending, now,
                   last_poll, cycles, transport, ins_log, receives,
                   last_recv, link_replies, mainVars, busVars>>

\* poll(addr) from receive() on, then poll_all's insert; after the last slave
\* poll_all returns its results without a commit and run_poll counts the cycle
MasterPollReceive ==
    /\ transport = "master"
    /\ pc = "receive"
    /\ \E raw \in link_replies :
        LET addr == clients[idx]
            out == master_poll_outcome[addr][raw]
            ins == storage_insert(db_committed, db_pending, out.val.addr,
                        <<out.val.temp_0, out.val.temp_1,
                          out.val.temp_2, out.val.temp_3>>, now)
            stored == out.ok /\ out.val.kind = "Reading"
            last == idx = Len(clients)
            done == cycle_done(now, interval)
        IN  /\ bus_log' = Append(bus_log, [op |-> "receive", data |-> <<>>])
            /\ last_poll' = [addr |-> addr, raw |-> raw, out |-> out]
            /\ cycle_polls' = Append(cycle_polls,
                    [addr |-> addr, from |-> reply_from[raw], stored |-> stored])
            /\ IF ~out.ok \/ (stored /\ ~ins.ok)
               THEN /\ pc' = "raised"
                    /\ UNCHANGED <<idx, results, db_pending, store_calls,
                                   ins_log, cycles, wait_until>>
               ELSE /\ IF stored
                       THEN /\ db_pending' = ins.val
                            /\ store_calls' = Append(store_calls,
                                  [op |-> "insert",
                                   id |-> ins.val[Len(ins.val)].id])
                            /\ ins_log' = Append(ins_log,
                                  [id |-> ins.val[Len(ins.val)].id,
                                   cycle |-> cycles + 1, pos |-> idx,
                                   raw |-> raw])
                            /\ results' = Append(results, out.val)
                       ELSE UNCHANGED <<results, db_pending, store_calls,
                                        ins_log>>
                    /\ idx' = idx + 1
                    /\ IF last
                       THEN /\ cycles' = cycles + 1
                            /\ pc' = done.pc
                            /\ wait_until' = done.wait_until
                       ELSE /\ pc' = "send"
                            /\ UNCHANGED <<cycles, wait_until>>
    /\ UNCHANGED <<codecVars, clients, db_committed, now, transport,
                   receives, last_recv, link_replies, interval, shutdown,
                   sig_at, purges, closes, busVars>>

\* run_poll finds the flag set: "return cycles"
MasterRunReturn ==
    /\ transport = "master"
    /\ pc = "idle"
    /\ ~loop_continues(shutdown)
    /\ pc' = "returned"
    /\ call' = Call("run_poll", 0, 0, <<>>)
    /\ ret' = Return(cycles)
    /\ UNCHANGED <<clients, idx, results, db_committed, db_pending, now,
                   bus_log, cycle_polls, last_poll, cycles, transport,
                   store_calls, ins_log, receives, last_recv, link_replies,
                   mainVars, busVars>>

NextMaster ==
    \/ MasterPollAllStart \/ PollSend \/ MasterPollReceive \/ Signal
    \/ WaitReturn \/ MainTick \/ MasterRunReturn \/ MainFinally

SpecMaster == InitMaster /\ [][NextMaster]_vars

(***************************************************************************)
(* The serial link as a state machine (tmon/bus.py): exchanges of one send *)
(* and one receive over a serial port on which bytes arrive at any time.   *)
(* A byte of the port is [b |-> value, stale |-> arrived before the send   *)
(* of the exchange was called]; the mark is not visible to the code.       *)
(***************************************************************************)
HEADER_LEN == 4
CRC_LEN == 2

Fresh(bytes) == [i \in 1..Len(bytes) |-> [b |-> bytes[i], stale |-> FALSE]]
Stale(buf) == [i \in 1..Len(buf) |-> [b |-> buf[i].b, stale |-> TRUE]]
Bytes(buf) == [i \in 1..Len(buf) |-> buf[i].b]

\* what may arrive on the line during a run: nothing, a frame without and
\* with payload, noise before a frame, a frame cut short, a header that
\* announces more than arrives, two frames back to back
LineInputs ==
    {<<>>,
     forge_frame(3, PROTO_CMD_REPLY, <<>>),
     forge_frame(3, PROTO_CMD_REPLY, <<1, 2>>),
     <<238>> \o forge_frame(3, PROTO_CMD_REPLY, <<>>),
     SubSeq(forge_frame(3, PROTO_CMD_REPLY, <<1, 2>>), 1, 7),
     <<1, 3, 2, 255, 0, 0>>,
     forge_frame(5, PROTO_CMD_REPLY, <<>>) \o forge_frame(3, PROTO_CMD_REPLY, <<>>)}

SendInputs == {forge_frame(3, PROTO_CMD_POLL, <<>>)}

\* Bus.__init__: the port is open, nothing was sent or received
InitBus ==
    /\ call = Call("none", 0, 0, <<>>)
    /\ ret = NoRet
    /\ clients = <<>>
    /\ transport = "none"
    /\ link_replies = {}
    /\ interval = 0
    /\ purges = <<>>
    /\ pc = "idle"
    /\ idx = 1
    /\ results = <<>>
    /\ db_committed = <<>>
    /\ db_pending = <<>>
    /\ now = 0
    /\ bus_log = <<>>
    /\ cycle_polls = <<>>
    /\ last_poll = NoPoll
    /\ cycles = 0
    /\ store_calls = <<>>
    /\ ins_log = <<>>
    /\ receives = 0
    /\ last_recv = NoRecv
    /\ wait_until = 0
    /\ shutdown = FALSE
    /\ sig_at = NoSignal
    /\ closes = <<>>
    /\ ser_in = <<>>
    /\ ser_line \in LineInputs
    /\ ser_log = <<>>
    /\ ser_pc = "idle"
    /\ ser_ret = <<>>
    /\ WifiIdle

busFrame == <<clients, pc, idx, results, db_committed, db_pending, now,
              bus_log, cycle_polls, last_poll, cycles, transport, store_calls,
              ins_log, receives, last_recv, link_replies, mainVars, wifiVars,
              last_seen>>

\* a byte arrives on the line and enters the input buffer of the port
BusArrive ==
    /\ ser_line # <<>>
    /\ ser_in' = ser_in \o Fresh(<<Head(ser_line)>>)
    /\ ser_line' = Tail(ser_line)
    /\ UNCHANGED <<codecVars, busFrame, ser_log, ser_pc, ser_ret>>

\* serial.Serial.reset_input_buffer: the buffered input is discarded
reset_input_buffer_keeps(buf) == buf

reset_input_buffer(buf) == <<>>

\* serial.Serial.read(n) when it returns: the first n bytes of the input
\* buffer, or all of it when the timeout has cut the read short
ser_read(buf, n) == SubSeq(buf, 1, Min(n, Len(buf)))
ser_rest(buf, n) == SubSeq(buf, Min(n, Len(buf)) + 1, Len(buf))

\* Bus.send(data) is called: self._ser.reset_input_buffer().  What is in
\* the input buffer now arrived before the call.
BusSendReset ==
    /\ ser_pc \in {"idle", "raised"}
    /\ \E data \in SendInputs : call' = Call("send", 0, 0, data)
    /\ ret' = NoRet
    /\ ser_in' = reset_input_buffer(Stale(ser_in))
    /\ ser_log' = <<[op |-> "reset_input_buffer", n |-> Len(ser_in),
                     data |-> <<>>]>>
    /\ ser_pc' = "write"
    /\ ser_ret' = <<>>
    /\ UNCHANGED <<busFrame, ser_line>>

\* Bus.send: self._ser.write(data)
BusSendWrite ==
    /\ ser_pc = "write"
    /\ ser_log' = Append(ser_log, [op |-> "write", n |-> Len(call.bytes),
                                   data |-> call.bytes])
    /\ ser_pc' = "flush"
    /\ UNCHANGED <<codecVars, busFrame, ser_in, ser_line, ser_ret>>

\* Bus.send: self._ser.flush(), and send returns
BusSendFlush ==
    /\ ser_pc = "flush"
    /\ ser_log' = Append(ser_log, [op |-> "flush", n |-> 0, data |-> <<>>])
    /\ ser_pc' = "sent"
    /\ ret' = Return("None")
    /\ UNCHANGED <<call, busFrame, ser_in, ser_line, ser_ret>>

\* Bus.receive after header = self._ser.read(4): return b"" on a short
\* header, else go on to read payload_len + 2 bytes
receive_header(header) ==
    IF Len(header) < HEADER_LEN
    THEN [done |-> TRUE, remaining |-> 0]
    ELSE [done |-> FALSE, remaining |-> header[4].b + CRC_LEN]

\* Bus.receive after tail = self._ser.read(remaining)
receive_tail_partial(header, tail, remaining) == header \o tail

receive_tail(header, tail, remaining) ==
    IF Len(tail) < remaining THEN <<>> ELSE header \o tail

\* Bus.receive(timeout_ms) is called after a send: the header is read
BusReceiveHeader ==
    /\ ser_pc = "sent"
    /\ call' = Call("receive", 0, 0, <<>>)
    /\ LET header == ser_read(ser_in, HEADER_LEN)
           h == receive_header(header)
       IN  /\ ser_in' = ser_rest(ser_in, HEADER_LEN)
           /\ ser_log' = Append(ser_log, [op |-> "read", n |-> HEADER_LEN,
                                          data |-> header])
           /\ IF h.done
              THEN /\ ser_pc' = "idle"
                   /\ ser_ret' = <<>>
                   /\ ret' = Return(<<>>)
              ELSE /\ ser_pc' = "tail"
                   /\ ser_ret' = <<>>
                   /\ ret' = NoRet
    /\ UNCHANGED <<busFrame, ser_line>>

\* Bus.receive: the payload and the CRC are read, and receive returns
BusReceiveTail ==
    /\ ser_pc = "tail"
    /\ LET header == ser_log[Len(ser_log)].data
           remaining == receive_header(header).remaining
           tail == ser_read(ser_in, remaining)
       IN  /\ ser_in' = ser_rest(ser_in, remaining)
           /\ ser_log' = Append(ser_log, [op |-> "read", n |-> remaining,
                                          data |-> tail])
           /\ ser_ret' = receive_tail(header, tail, remaining)
           /\ ret' = Return(Bytes(ser_ret'))
    /\ ser_pc' = "idle"
    /\ UNCHANGED <<call, busFrame, ser_line>>

\* Bus.receive: self._ser.read raises (serial.SerialException: the port
\* reports an I/O error, the adapter was unplugged); receive has no handler,
\* the exception leaves it
BusReadError ==
    /\ ser_pc \in {"sent", "tail"}
    /\ call' = Call("receive", 0, 0, <<>>)
    /\ ret' = Raise("SerialException", "read failed")
    /\ ser_log' = Append(ser_log,
            [op |-> "read",
             n |-> IF ser_pc = "sent" THEN HEADER_LEN
                   ELSE receive_header(ser_log[Len(ser_log)].data).remaining,
             data |-> <<>>])
    /\ ser_ret' = <<>>
    /\ ser_pc' = "raised"
    /\ UNCHANGED <<busFrame, ser_in, ser_line>>

NextBus ==
    \/ BusArrive \/ BusSendReset \/ BusSendWrite \/ BusSendFlush
    \/ BusReceiveHeader \/ BusReceiveTail \/ BusReadError

SpecBus == InitBus /\ [][NextBus]_vars

(***************************************************************************)
(* WifiBus (master tmon/wifi_bus.py): a TCP server whose accept thread     *)
(* registers the connections of the slaves while the caller polls through *)
(* send and receive.  A section under self._lock is one step; a socket     *)
(* call outside the lock (accept, recv, sendall) is a step of its own.     *)
(* A connection is [st, addr, buf, peer]: st is "none" before the slave    *)
(* connects, "backlog" while it waits for accept, "held" while the accept  *)
(* thread reads its address byte, "open" once registered, "closed" when    *)
(* the server side has closed its socket; buf is the input buffered at the *)
(* server; peer is "up", or "reset" once the slave's end is gone.          *)
(***************************************************************************)
\* what the slave at LineAddr sends during a run, as the TCP segments in
\* which it arrives: a REPLY frame in one piece, or cut after the header, or
\* cut inside the header
WifiFrame == forge_frame(3, PROTO_CMD_REPLY, <<>>)
WifiLines ==
    {<<WifiFrame>>,
     <<SubSeq(WifiFrame, 1, 4), SubSeq(WifiFrame, 5, 6)>>,
     <<SubSeq(WifiFrame, 1, 2), SubSeq(WifiFrame, 3, 6)>>}
WifiSendInputs ==
    {<<1>>, forge_frame(3, PROTO_CMD_POLL, <<>>),
     forge_frame(5, PROTO_CMD_POLL, <<>>)}
LineAddr == 3

\* WifiBus.__init__ has returned: the server listens, the accept thread runs
InitWifi ==
    /\ call = Call("none", 0, 0, <<>>)
    /\ ret = NoRet
    /\ clients = <<>>
    /\ transport = "none"
    /\ link_replies = {}
    /\ interval = 0
    /\ purges = <<>>
    /\ pc = "idle"
    /\ idx = 1
    /\ results = <<>>
    /\ db_committed = <<>>
    /\ db_pending = <<>>
    /\ now = 0
    /\ bus_log = <<>>
    /\ cycle_polls = <<>>
    /\ last_poll = NoPoll
    /\ cycles = 0
    /\ store_calls = <<>>
    /\ ins_log = <<>>
    /\ receives = 0
    /\ last_recv = NoRecv
    /\ wait_until = 0
    /\ shutdown = FALSE
    /\ sig_at = NoSignal
    /\ closes = <<>>
    /\ ser_in = <<>>
    /\ ser_line = <<>>
    /\ ser_log = <<>>
    /\ ser_pc = "idle"
    /\ ser_ret = <<>>
    /\ w_sockets = [a \in WifiAddrs |-> 0]
    /\ w_conns = [c \in 1..MaxConns |-> NoConn]
    /\ w_running = TRUE
    /\ w_server = "open"
    /\ acc_pc = "head"
    /\ acc_conn = 0
    /\ w_pc = "idle"
    /\ w_sock = 0
    /\ w_cur = 0
    /\ w_hdr = <<>>
    /\ w_line \in WifiLines
    /\ w_last = NoCall
    /\ last_seen = [a \in SeenAddrs |-> None]

wifiFrame == <<codecVars, clients, pc, idx, results, db_committed, db_pending,
               now, bus_log, cycle_polls, last_poll, cycles, transport,
               store_calls, ins_log, receives, last_recv, link_replies,
               mainVars, ser_in, ser_line, ser_log, ser_pc, ser_ret,
               last_seen>>

\* self._sockets.get(addr)
sockets_get(sockets, addr) == IF addr \in DOMAIN sockets THEN sockets[addr] ELSE 0

\* a slave connects to the listening socket; the connections are numbered
\* in the order in which they are made
WifiConnect ==
    /\ w_server = "open"
    /\ \E c \in 1..MaxConns :
        /\ w_conns[c].st = "none"
        /\ \A b \in 1..(c - 1) : w_conns[b].st # "none"
        /\ w_conns' = [w_conns EXCEPT ![c].st = "backlog"]
    /\ UNCHANGED <<wifiFrame, w_sockets, w_running, w_server, acc_pc,
                   acc_conn, w_pc, w_sock, w_cur, w_hdr, w_line, w_last>>

\* a segment the slave at LineAddr has sent arrives on a connection of that
\* slave
WifiArrive ==
    /\ w_line # <<>>
    /\ \E c \in 1..MaxConns :
        /\ w_conns[c].st = "open"
        /\ w_conns[c].addr = LineAddr
        /\ w_conns[c].peer = "up"
        /\ w_conns' = [w_conns EXCEPT
                ![c].buf = w_conns[c].buf \o Fresh(Head(w_line))]
    /\ w_line' = Tail(w_line)
    /\ UNCHANGED <<wifiFrame, w_sockets, w_running, w_server, acc_pc,
                   acc_conn, w_pc, w_sock, w_cur, w_hdr, w_last>>

\* the slave's end of a registered connection goes away: the connection is
\* reset
SlaveDrop ==
    /\ \E c \in 1..MaxConns :
        /\ w_conns[c].st = "open"
        /\ w_conns[c].peer = "up"
        /\ w_conns' = [w_conns EXCEPT ![c].peer = "reset"]
    /\ UNCHANGED <<wifiFrame, w_sockets, w_running, w_server, acc_pc,
                   acc_conn, w_pc, w_sock, w_cur, w_hdr, w_line, w_last>>

\* _accept_loop: "while self._running"
AccHead ==
    /\ acc_pc = "head"
    /\ acc_pc' = IF w_running THEN "accept" ELSE "exit"
    /\ UNCHANGED <<wifiFrame, w_sockets, w_conns, w_running, w_server,
                   acc_conn, w_pc, w_sock, w_cur, w_hdr, w_line, w_last>>

\* _accept_loop: self._server.accept() returns a connection, or times out
\* after 0.1 s, or raises OSError because the server socket is closed
AccAccept ==
    /\ acc_pc = "accept"
    /\ \/ /\ w_server = "open"
          /\ \E c \in 1..MaxConns :
              /\ w_conns[c].st = "backlog"
              /\ w_conns' = [w_conns EXCEPT ![c].st = "held"]
              /\ acc_conn' = c
          /\ acc_pc' = "recv"
       \/ /\ acc_pc' = "head"
          /\ UNCHANGED <<w_conns, acc_conn>>
    /\ UNCHANGED <<wifiFrame, w_sockets, w_running, w_server, w_pc, w_sock,
                   w_cur, w_hdr, w_line, w_last>>

\* Mutant of accept_register: the connection registered before is not closed.
accept_register_no_close(sockets, conns, a, c) ==
    [sockets |-> [sockets EXCEPT ![a] = c],
     conns |-> [conns EXCEPT ![c].st = "open", ![c].addr = a]]

\* _accept_loop under the lock: old = self._sockets.get(slave_addr); old is
\* closed if there is one; self._sockets[slave_addr] = conn
accept_register(sockets, conns, a, c) ==
    LET old == sockets_get(sockets, a)
        shut == IF old # 0 THEN [conns EXCEPT ![old].st = "closed"] ELSE conns
    IN  [sockets |-> [sockets EXCEPT ![a] = c],
         conns |-> [shut EXCEPT ![c].st = "open", ![c].addr = a]]

\* _accept_loop: conn.recv(1) returns the address byte and the connection is
\* registered; or it returns nothing, times out after 5 s or fails, and the
\* connection is closed
AccRecv ==
    /\ acc_pc = "recv"
    /\ \E a \in WifiAddrs \cup {0} :
        IF a # 0
        THEN LET r == accept_register(w_sockets, w_conns, a, acc_conn)
             IN  w_sockets' = r.sockets /\ w_conns' = r.conns
        ELSE /\ w_conns' = [w_conns EXCEPT ![acc_conn].st = "closed"]
             /\ UNCHANGED w_sockets
    /\ acc_conn' = 0
    /\ acc_pc' = "head"
    /\ UNCHANGED <<wifiFrame, w_running, w_server, w_pc, w_sock, w_cur,
                   w_hdr, w_line, w_last>>

\* the input buffered on every connection is older than the call of send
AllStale(conns) == [c \in DOMAIN conns |-> [conns[c] EXCEPT !.buf = Stale(@)]]

\* a socket call on the connection raises OSError: the socket was closed at
\* the server, or the slave has reset the connection
io_fails(conn) == conn.st = "closed" \/ conn.peer = "reset"

\* send(data) up to sendall: the length test, self._current_addr = addr, the
\* lookup under the lock, "if sock is None: return"
WifiSend ==
    /\ w_pc = "idle"
    /\ w_conns' = AllStale(w_conns)
    /\ \E data \in WifiSendInputs :
        IF Len(data) < 2
        THEN /\ w_last' = [op |-> "send", conn |-> 0, addr |-> 0,
                           ok |-> TRUE, data |-> <<>>]
             /\ w_pc' = "sent"
             /\ w_sock' = 0
             /\ UNCHANGED w_cur
        ELSE /\ w_cur' = data[2]
             /\ w_sock' = sockets_get(w_sockets, data[2])
             /\ IF w_sock' = 0
                THEN /\ w_last' = [op |-> "send", conn |-> 0,
                                   addr |-> data[2], ok |-> TRUE,
                                   data |-> <<>>]
                     /\ w_pc' = "sent"
                ELSE /\ w_pc' = "sendall"
                     /\ UNCHANGED w_last
    /\ UNCHANGED <<wifiFrame, w_sockets, w_running, w_server, acc_pc,
                   acc_conn, w_hdr, w_line>>

\* send: sock.sendall(data) delivers the frame, or raises OSError
WifiSendAll ==
    /\ w_pc = "sendall"
    /\ IF io_fails(w_conns[w_sock])
       THEN /\ w_pc' = "send_fail"
            /\ UNCHANGED <<w_last, w_sock>>
       ELSE /\ w_pc' = "sent"
            /\ w_last' = [op |-> "send", conn |-> w_sock, addr |-> w_cur,
                          ok |-> TRUE, data |-> <<>>]
            /\ w_sock' = 0
    /\ UNCHANGED <<wifiFrame, w_sockets, w_conns, w_running, w_server,
                   acc_pc, acc_conn, w_cur, w_hdr, w_line>>

\* Mutant of drop_if_registered: the entry is deleted whatever it holds.
drop_always(sockets, addr, sock) == [sockets EXCEPT ![addr] = 0]

\* "if self._sockets.get(addr) is sock: del self._sockets[addr]"
drop_if_registered(sockets, addr, sock) ==
    IF sockets_get(sockets, addr) = sock
    THEN [sockets EXCEPT ![addr] = 0]
    ELSE sockets

\* send: except OSError, under the lock
WifiSendFail ==
    /\ w_pc = "send_fail"
    /\ w_sockets' = drop_if_registered(w_sockets, w_cur, w_sock)
    /\ w_last' = [op |-> "send", conn |-> w_sock, addr |-> w_cur,
                  ok |-> FALSE, data |-> <<>>]
    /\ w_pc' = "sent"
    /\ w_sock' = 0
    /\ UNCHANGED <<wifiFrame, w_conns, w_running, w_server, acc_pc,
                   acc_conn, w_cur, w_hdr, w_line>>

\* what receive returns, as w_last
ReceiveResult(conn, addr, data, ok) ==
    [op |-> "receive", conn |-> conn, addr |-> addr, ok |-> ok, data |-> data]

\* receive() up to the first read: "if self._current_addr is None", the
\* lookup under the lock, "if sock is None"
WifiReceive ==
    /\ w_pc = "sent"
    /\ w_sock' = sockets_get(w_sockets, w_cur)
    /\ IF w_cur = 0 \/ w_sock' = 0
       THEN /\ w_last' = ReceiveResult(0, w_cur, <<>>, TRUE)
            /\ w_pc' = "idle"
       ELSE /\ w_pc' = "recv_head"
            /\ UNCHANGED w_last
    /\ UNCHANGED <<wifiFrame, w_sockets, w_conns, w_running, w_server,
                   acc_pc, acc_conn, w_cur, w_hdr, w_line>>

\* _recv_exact(sock, n) when it returns or when sock.recv times out: the n
\* bytes, or b"" with what was buffered taken off the connection
recv_exact(buf, n) ==
    IF Len(buf) >= n
    THEN [data |-> SubSeq(buf, 1, n), rest |-> SubSeq(buf, n + 1, Len(buf))]
    ELSE [data |-> <<>>, rest |-> <<>>]

\* receive: settimeout, header = self._recv_exact(sock, 4)
WifiRecvHeader ==
    /\ w_pc = "recv_head"
    /\ IF io_fails(w_conns[w_sock])
       THEN /\ w_pc' = "recv_fail"
            /\ UNCHANGED <<w_conns, w_hdr, w_last, w_sock>>
       ELSE LET r == recv_exact(w_conns[w_sock].buf, HEADER_LEN)
            IN  /\ w_conns' = [w_conns EXCEPT ![w_sock].buf = r.rest]
                /\ IF Len(r.data) < HEADER_LEN
                   THEN /\ w_last' = ReceiveResult(w_sock, w_cur, <<>>, TRUE)
                        /\ w_pc' = "idle"
                        /\ w_sock' = 0
                        /\ UNCHANGED w_hdr
                   ELSE /\ w_hdr' = r.data
                        /\ w_pc' = "recv_tail"
                        /\ UNCHANGED <<w_last, w_sock>>
    /\ UNCHANGED <<wifiFrame, w_sockets, w_running, w_server, acc_pc,
                   acc_conn, w_cur, w_line>>

\* receive: tail = self._recv_exact(sock, payload_len + 2); return
WifiRecvTail ==
    /\ w_pc = "recv_tail"
    /\ IF io_fails(w_conns[w_sock])
       THEN /\ w_pc' = "recv_fail"
            /\ UNCHANGED <<w_conns, w_last, w_sock>>
       ELSE LET remaining == w_hdr[4].b + CRC_LEN
                r == recv_exact(w_conns[w_sock].buf, remaining)
            IN  /\ w_conns' = [w_conns EXCEPT ![w_sock].buf = r.rest]
                /\ w_last' = ReceiveResult(w_sock, w_cur,
                        IF Len(r.data) < remaining THEN <<>>
                        ELSE w_hdr \o r.data, TRUE)
                /\ w_pc' = "idle"
                /\ w_sock' = 0
    /\ w_hdr' = <<>>
    /\ UNCHANGED <<wifiFrame, w_sockets, w_running, w_server, acc_pc,
                   acc_conn, w_cur, w_line>>

\* receive: except OSError, under the lock; return b""
WifiRecvFail ==
    /\ w_pc = "recv_fail"
    /\ w_sockets' = drop_if_registered(w_sockets, w_cur, w_sock)
    /\ w_last' = ReceiveResult(w_sock, w_cur, <<>>, FALSE)
    /\ w_pc' = "idle"
    /\ w_sock' = 0
    /\ UNCHANGED <<wifiFrame, w_conns, w_running, w_server, acc_pc,
                   acc_conn, w_cur, w_hdr, w_line>>

\* close(): self._running = False
WifiClose ==
    /\ w_pc = "idle"
    /\ w_running' = FALSE
    /\ w_pc' = "join"
    /\ UNCHANGED <<wifiFrame, w_sockets, w_conns, w_server, acc_pc,
                   acc_conn, w_sock, w_cur, w_hdr, w_line, w_last>>

\* self._accept_thread.join(timeout=1.0) returns: the thread has ended, or a
\* second has passed while it waits up to 5 s in conn.recv(1)
join_returns(apc) == apc = "exit" \/ apc = "recv"

\* close: the join returns
WifiCloseJoin ==
    /\ w_pc = "join"
    /\ join_returns(acc_pc)
    /\ w_pc' = "close_socks"
    /\ UNCHANGED <<wifiFrame, w_sockets, w_conns, w_running, w_server,
                   acc_pc, acc_conn, w_sock, w_cur, w_hdr, w_line, w_last>>

\* close under the lock: every registered socket is closed, the registry
\* cleared
WifiCloseSockets ==
    /\ w_pc = "close_socks"
    /\ w_conns' = [c \in 1..MaxConns |->
            IF \E a \in WifiAddrs : w_sockets[a] = c
            THEN [w_conns[c] EXCEPT !.st = "closed"] ELSE w_conns[c]]
    /\ w_sockets' = [a \in WifiAddrs |-> 0]
    /\ w_pc' = "close_server"
    /\ UNCHANGED <<wifiFrame, w_running, w_server, acc_pc, acc_conn, w_sock,
                   w_cur, w_hdr, w_line, w_last>>

\* close: self._server.close(), and close returns
WifiCloseServer ==
    /\ w_pc = "close_server"
    /\ w_server' = "closed"
    /\ w_last' = [op |-> "close", conn |-> 0, addr |-> 0, ok |-> TRUE,
                  data |-> <<>>]
    /\ w_pc' = "closed"
    /\ UNCHANGED <<wifiFrame, w_sockets, w_conns, w_running, acc_pc,
                   acc_conn, w_sock, w_cur, w_hdr, w_line>>

NextWifi ==
    \/ WifiConnect \/ WifiArrive \/ SlaveDrop \/ AccHead \/ AccAccept
    \/ AccRecv \/ WifiSend \/ WifiSendAll \/ WifiSendFail \/ WifiReceive
    \/ WifiRecvHeader \/ WifiRecvTail \/ WifiRecvFail \/ WifiClose
    \/ WifiCloseJoin \/ WifiCloseSockets \/ WifiCloseServer

SpecWifi == InitWifi /\ [][NextWifi]_vars

(***************************************************************************)
(* The master's push listener (master tmon/listener.py): receive takes one *)
(* datagram, stores the reading of a valid REPLY and notes when its sender *)
(* was last seen; last_seen and stale_slaves read the notes.               *)
(***************************************************************************)
MaxAges == {0, 1}

\* Listener.__init__ over an open, empty store
InitListener ==
    /\ call = Call("none", 0, 0, <<>>)
    /\ ret = NoRet
    /\ clients = <<>>
    /\ transport = "push"
    /\ link_replies = LinkReplies
    /\ interval = 0
    /\ purges = <<>>
    /\ PollerIdle

\* "self._last_seen[addr] = time.monotonic()"
mark_seen(seen, addr, t) == [seen EXCEPT ![addr] = Some(t)]

\* Listener.receive(timeout_s): recv, _process_frame; a Reading is inserted
\* and committed, and its sender marked as seen now
ListenerReceiveOne ==
    /\ transport = "push"
    /\ receives < MaxReceives
    /\ receives' = receives + 1
    /\ \E raw \in link_replies :
        LET out == listen_outcome[raw]
            ins == storage_insert(db_committed, db_pending, out.val.addr,
                        <<out.val.temp_0, out.val.temp_1,
                          out.val.temp_2, out.val.temp_3>>, now)
            stored == out.ok /\ out.val.kind = "Reading"
        IN  /\ last_recv' = [raw |-> raw, out |-> out]
            /\ call' = Call("receive", 0, 0, raw)
            /\ ret' = out
            /\ IF stored /\ ins.ok
               THEN /\ db_committed' = storage_commit(db_committed, ins.val)
                    /\ db_pending' = <<>>
                    /\ store_calls' =
                           <<[op |-> "insert", id |-> ins.val[Len(ins.val)].id],
                             [op |-> "commit"]>>
                    /\ last_seen' = mark_seen(last_seen, out.val.addr, now)
               ELSE /\ store_calls' = <<>>
                    /\ UNCHANGED <<db_committed, db_pending, last_seen>>
    /\ UNCHANGED <<clients, pc, idx, results, now, bus_log, cycle_polls,
                   last_poll, cycles, transport, ins_log, link_replies,
                   mainVars, ser_in, ser_line, ser_log, ser_pc, ser_ret,
                   wifiVars>>

\* Listener.last_seen(addr)
CallLastSeen ==
    /\ transport = "push"
    /\ \E a \in SeenAddrs :
        /\ call' = Call("last_seen", a, 0, <<>>)
        /\ ret' = Return(last_seen[a])
    /\ UNCHANGED pollVars

\* Mutant of stale_slaves: an address never seen counts as stale.
stale_slaves_unseen_too(seen, t, max_age_s) ==
    {a \in DOMAIN seen : seen[a] = None \/ t - seen[a][1] > max_age_s}

\* Listener.stale_slaves(max_age_s), as the set of the addresses returned
stale_slaves(seen, t, max_age_s) ==
    {a \in DOMAIN seen : seen[a] # None /\ t - seen[a][1] > max_age_s}

CallStaleSlaves ==
    /\ transport = "push"
    /\ \E age \in MaxAges :
        /\ call' = Call("stale_slaves", 0, age, <<>>)
        /\ ret' = Return(stale_slaves(last_seen, now, age))
    /\ UNCHANGED pollVars

NextListener == ListenerReceiveOne \/ CallLastSeen \/ CallStaleSlaves \/ Tick

SpecListener == InitListener /\ [][NextListener]_vars

(***************************************************************************)
(* Configuration loading (tmon/config.py): the validation of the device    *)
(* list of an rs485 configuration.  A TOML value is [int |-> TRUE, v |-> n] *)
(* for the integer n and [int |-> FALSE, v |-> 0] for a value of any other *)
(* type; the key is missing, holds something that is not a list, or holds  *)
(* a list of values.                                                       *)
(***************************************************************************)
IntV(n) == [int |-> TRUE, v |-> n]
StrV == [int |-> FALSE, v |-> 0]
ConfigValues == {IntV(n) : n \in {0, 1, 3, 247, 248}} \cup {StrV}
ConfigInputs ==
    {[kind |-> "missing", items |-> <<>>], [kind |-> "str", items |-> <<>>]}
    \cup {[kind |-> "list", items |-> l] :
            l \in UNION {[1..k -> ConfigValues] : k \in 0..MaxConfigLen}}

\* the position of the first element that is not an int, 0 when all are
first_non_int(items) ==
    IF \A i \in 1..Len(items) : items[i].int THEN 0
    ELSE CHOOSE i \in 1..Len(items) :
            ~items[i].int /\ \A j \in 1..(i - 1) : items[j].int

\* _require_sensors(raw), and load_config's result["sensors"] when it passes
require_sensors(raw) ==
    IF raw.kind = "missing"
    THEN Raise("ValueError", "missing required key: sensors")
    ELSE IF raw.kind # "list"
    THEN Raise("ValueError", "sensors must be a list of ints")
    ELSE IF first_non_int(raw.items) # 0
    THEN Raise("ValueError", "sensors[i] must be int")
    ELSE IF Len(raw.items) = 0
    THEN Raise("ValueError", "sensors must not be empty")
    ELSE Return([i \in 1..Len(raw.items) |-> raw.items[i].v])

\* a configuration file is about to be loaded
InitConfig ==
    /\ call \in {Call("load_config", 0, 0, raw) : raw \in ConfigInputs}
    /\ ret = NoRet
    /\ clients = <<>>
    /\ transport = "none"
    /\ link_replies = {}
    /\ interval = 0
    /\ purges = <<>>
    /\ PollerIdle

configFrame == <<pc, idx, results, db_committed, db_pending, now,
                 bus_log, cycle_polls, last_poll, cycles, store_calls,
                 ins_log, receives, last_recv, link_replies, mainVars,
                 busVars>>

\* main: cfg = load_config(...); on success the rs485 branch hands the list
\* to the poller
CallLoadConfig ==
    /\ Pending("load_config")
    /\ ret' = require_sensors(call.bytes)
    /\ IF ret'.ok
       THEN clients' = ret'.val /\ transport' = "rs485"
       ELSE UNCHANGED <<clients, transport>>
    /\ UNCHANGED <<call, configFrame>>

NextConfig == CallLoadConfig

SpecConfig == InitConfig /\ [][NextConfig]_vars

(***************************************************************************)
(* Frame codec: claims C1..C7, all under SpecCodec.                        *)
(***************************************************************************)
Done(fn) == call.fn = fn /\ ret # NoRet

DecodeReasons ==
    {"TooShort", "BadStart", "LengthMismatch", "BadCrc", "AddrOutOfRange"}

\* C1: encode/decode round trip. For every addr in 1..247, cmd in {POLL,
\* REPLY} and payload of length 0..255, encode_frame succeeds and decode_frame
\* of its output yields exactly (addr, cmd, payload).
C1_RoundTrip ==
    (/\ Done("encode_frame")
     /\ call.addr \in 1..247
     /\ call.cmd \in {PROTO_CMD_POLL, PROTO_CMD_REPLY}
     /\ Len(call.bytes) \in 0..255)
    => /\ ret.ok
       /\ decode_frame(ret.val) = Return(Frame(call.addr, call.cmd, call.bytes))

\* C1 witness: a REPLY with the longest payload (255 bytes) from the highest
\* address has been encoded and decodes back.
C1_Witness ==
    /\ Done("encode_frame")
    /\ call.addr = 247 /\ call.cmd = PROTO_CMD_REPLY /\ Len(call.bytes) = 255
    /\ ret.ok
    /\ decode_frame(ret.val).ok

\* C2: decoder safety. For every byte sequence b, decode_frame(b) either
\* raises ValueError for one of the five documented reasons, or returns
\* (addr, cmd, payload) whose encoding is b byte for byte; it never ends in an
\* out-of-bounds read (IndexError, struct.error) or any other error.
C2_DecoderSafety ==
    Done("decode_frame") =>
        \/ /\ ~ret.ok
           /\ ret.exc = "ValueError"
           /\ ret.reason \in DecodeReasons
        \/ /\ ret.ok
           /\ encode_frame(ret.val.addr, ret.val.cmd, ret.val.payload)
                = Return(call.bytes)

\* C2 witness: one of the free-form byte strings was decoded successfully.
C2_Witness ==
    /\ Done("decode_frame")
    /\ call.bytes \in ByteSeqs(RawAlphabet, MaxRawLen)
    /\ ret.ok

\* The checks of decode_frame, each as a property of the input alone.
ViolatesTooShort(b) == Len(b) < 6
ViolatesStart(b) == Len(b) >= 1 /\ b[1] # 1
ViolatesLength(b) == Len(b) >= 4 /\ Len(b) # 4 + b[4] + 2
ViolatesCrc(b) ==
    /\ Len(b) >= 6
    /\ b[Len(b) - 1] + 256 * b[Len(b)] # crc16_modbus(SubSeq(b, 2, Len(b) - 2))
ViolatesAddr(b) == Len(b) >= 2 /\ b[2] \notin 1..247

\* C3: decode_frame applies its checks in the order TooShort, BadStart,
\* LengthMismatch, BadCrc, AddrOutOfRange and reports the first that fails:
\* whatever later checks the input also violates, the reason is that of the
\* earliest violated one (ADDR = 0 with a wrong CRC gives BadCrc).
C3_CheckOrder ==
    Done("decode_frame") =>
        LET b == call.bytes IN
        /\ ViolatesTooShort(b) => ret.reason = "TooShort"
        /\ (~ViolatesTooShort(b) /\ ViolatesStart(b)) => ret.reason = "BadStart"
        /\ (~ViolatesTooShort(b) /\ ~ViolatesStart(b) /\ ViolatesLength(b))
            => ret.reason = "LengthMismatch"
        /\ (~ViolatesTooShort(b) /\ ~ViolatesStart(b) /\ ~ViolatesLength(b)
                /\ ViolatesCrc(b))
            => ret.reason = "BadCrc"
        /\ (~ViolatesTooShort(b) /\ ~ViolatesStart(b) /\ ~ViolatesLength(b)
                /\ ~ViolatesCrc(b) /\ ViolatesAddr(b))
            => ret.reason = "AddrOutOfRange"

\* C3 witness: a well-framed input with ADDR = 0 and a wrong CRC was rejected.
C3_Witness ==
    /\ Done("decode_frame")
    /\ ~ViolatesTooShort(call.bytes) /\ ~ViolatesStart(call.bytes)
    /\ ~ViolatesLength(call.bytes)
    /\ ViolatesCrc(call.bytes) /\ call.bytes[2] = 0
    /\ ret.reason = "BadCrc"

\* C4: for a valid addr and a payload of length 0..255 encode_frame returns
\* exactly 6 + |payload| bytes: START = 0x01, ADDR, CMD, LEN = |payload|, the
\* payload, then the CRC-16/MODBUS of ADDR..PAYLOAD, low byte first; and
\* encode(3, POLL, empty) is 01 03 01 00 80 50.
C4_EncodeLayout ==
    (/\ Done("encode_frame")
     /\ call.addr \in 1..247 /\ IsByte(call.cmd) /\ Len(call.bytes) \in 0..255)
    => LET n == Len(call.bytes)
           f == ret.val
       IN  /\ ret.ok
           /\ Len(f) = 6 + n
           /\ f[1] = 1 /\ f[2] = call.addr /\ f[3] = call.cmd /\ f[4] = n
           /\ SubSeq(f, 5, 4 + n) = call.bytes
           /\ f[5 + n] = crc16_modbus(SubSeq(f, 2, 4 + n)) % 256
           /\ f[6 + n] = crc16_modbus(SubSeq(f, 2, 4 + n)) \div 256
           /\ (call.addr = 3 /\ call.cmd = PROTO_CMD_POLL /\ n = 0)
                => f = <<1, 3, 1, 0, 128, 80>>

\* C4 witness: the POLL for device 3 has been encoded.
C4_Witness ==
    /\ Done("encode_frame")
    /\ call.addr = 3 /\ call.cmd = PROTO_CMD_POLL /\ call.bytes = <<>>
    /\ ret = Return(<<1, 3, 1, 0, 128, 80>>)

\* C5: encode_frame fails with the invalid-address error if and only if addr
\* is outside 1..247, and when it fails it produces no bytes.
C5_EncodeAddrCheck ==
    Done("encode_frame") =>
        /\ (~ret.ok /\ ret.reason = "InvalidAddress") <=> call.addr \notin 1..247
        /\ ~ret.ok => ret.val = <<>>
        /\ call.addr \in {0, 248} => ~ret.ok
        /\ (call.addr \in {1, 247} /\ IsByte(call.cmd) /\ Len(call.bytes) <= 255)
            => ret.ok

\* C5 witness: address 248 was rejected.
C5_Witness ==
    /\ Done("encode_frame")
    /\ call.addr = 248
    /\ ret = Raise("ValueError", "InvalidAddress")

\* C6: crc16_modbus is CRC-16/MODBUS: its result is always in 0..0xFFFF, the
\* CRC of the empty input is 0xFFFF, CRC(03 01 00) = 0x5080,
\* CRC(03 02 08 EB 00 C6 00 FF 7F FF 7F) = 0xEB90, and the catalogue check
\* value CRC("123456789") = 0x4B37.
C6_CrcVectors ==
    Done("crc16_modbus") =>
        /\ ret.ok
        /\ ret.val \in 0..65535
        /\ call.bytes = <<>> => ret.val = 65535
        /\ call.bytes = <<3, 1, 0>> => ret.val = 20608
        /\ call.bytes = Example2Body => ret.val = 60304
        /\ call.bytes = CheckString => ret.val = 19255

\* C6 witness: the CRC of the Example 2 body has been computed.
C6_Witness ==
    /\ Done("crc16_modbus")
    /\ call.bytes = <<3, 2, 8, 235, 0, 198, 0, 255, 127, 255, 127>>
    /\ ret.val = 60304

\* the k-th (1..4) little-endian signed 16-bit word of an 8-byte payload
SignedWord(p, k) ==
    p[2 * k - 1] + 256 * p[2 * k] - (IF p[2 * k] >= 128 THEN 65536 ELSE 0)

\* C7: parse_reply fails with the bad-payload-length error iff the payload is
\* not exactly 8 bytes; otherwise it returns four values, value k absent iff
\* the k-th little-endian signed 16-bit word is 0x7FFF and equal to that
\* signed word otherwise; parsing the packing of four samples gives them back.
C7_ParseReply ==
    Done("parse_reply") =>
        /\ (~ret.ok /\ ret.reason = "BadPayloadLength") <=> Len(call.bytes) # 8
        /\ Len(call.bytes) = 8 =>
            /\ ret.ok
            /\ Len(ret.val) = 4
            /\ \A k \in 1..4 :
                /\ ret.val[k] = None <=> SignedWord(call.bytes, k) = 32767
                /\ SignedWord(call.bytes, k) # 32767
                    => ret.val[k] = Some(SignedWord(call.bytes, k))
            /\ \A t \in SampleTuples :
                call.bytes = pack_hhhh(t) =>
                    ret.val = [k \in 1..4 |->
                                IF t[k] = 32767 THEN None ELSE Some(t[k])]

\* C7 witness: a payload with negative samples and a sentinel was parsed.
C7_Witness ==
    /\ Done("parse_reply")
    /\ call.bytes = pack_hhhh(<<-100, 32767, 0, -32768>>)
    /\ ret = Return(<<Some(-100), None, Some(0), Some(-32768)>>)

(***************************************************************************)
(* Poll engine: claims C8..C10, under Spec.                                *)
(***************************************************************************)
\* decode_frame and the POLL frames, tabulated for the formulas below
decoded == [r \in LinkReplies |-> decode_frame(r)]
poll_frame == [a \in PolledAddrs |-> forge_frame(a, PROTO_CMD_POLL, <<>>)]

\* C8: poll(addr) returns a Reading if and only if the bytes the link hands
\* back are non-empty, decode, carry the polled addr, cmd = REPLY and an
\* 8-byte payload; in every other case it returns None, and it never raises,
\* whatever the link hands back.
C8_PollClassification ==
    last_poll # NoPoll =>
        LET d == decoded[last_poll.raw] IN
        /\ last_poll.out.ok
        /\ last_poll.out.val.kind \in {"Reading", "None"}
        /\ last_poll.out.val.kind = "Reading"
            <=> /\ last_poll.raw # <<>>
                /\ d.ok
                /\ d.val.addr = last_poll.addr
                /\ d.val.cmd = 2
                /\ Len(d.val.payload) = 8

\* C8 witness: a poll of device 247 was answered and gave a Reading.
C8_Witness ==
    /\ last_poll.addr = 247
    /\ last_poll.out.ok
    /\ last_poll.out.val.kind = "Reading"
    /\ last_poll.out.val.addr = 247

\* the link answered the poll of p.addr with a REPLY frame of another device
WrongRespondent(p) == reply_from[p.raw] \notin {0, p.addr}

\* C9 as claimed: when a poll of a is answered by a valid REPLY frame of
\* b # a, poll(a) returns None and the cycle in which this happens inserts
\* no row for a and no row for b.
C9_CycleInsertsNoRow ==
    \A k \in 1..Len(cycle_polls) :
        cycle_polls[k].from \notin {0, cycle_polls[k].addr} =>
            /\ ~cycle_polls[k].stored
            /\ \A j \in 1..Len(db_pending) :
                db_pending[j].addr \notin
                    {cycle_polls[k].addr, cycle_polls[k].from}

\* C9 amended: when a poll of a is answered by a valid REPLY frame of b # a,
\* poll(a) returns None and that poll inserts no row: the store and the
\* cycle's results are what they were before the poll.  (Other polls of the
\* same cycle may still insert rows for a or for b.)
C9_WrongRespondentNoInsert ==
    [][(pc = "receive" /\ pc' # "receive" /\ WrongRespondent(last_poll'))
        => /\ last_poll'.out = Return(Absent("addr mismatch"))
           /\ db_pending' = db_pending
           /\ db_committed' = db_committed
           /\ results' = results]_vars

\* C9 witness: device 3 was polled and the REPLY of device 5 came back.
C9_Witness ==
    /\ last_poll.addr = 3
    /\ reply_from[last_poll.raw] = 5
    /\ last_poll.out = Return(Absent("addr mismatch"))

\* C10: within one poll_all cycle the link is used strictly sequentially and
\* without retries: for each configured address, in configured order, exactly
\* one POLL frame is sent and then exactly one receive is performed before
\* the next POLL is sent; the cycle is not cut short and no address is polled
\* again, so a cycle that has ended has made one send and one receive per
\* configured address.
C10_Sequential ==
    /\ Len(bus_log) <= 2 * Len(clients)
    /\ \A k \in 1..Len(bus_log) :
        IF k % 2 = 1
        THEN bus_log[k] =
                [op |-> "send", data |-> poll_frame[clients[(k + 1) \div 2]]]
        ELSE bus_log[k].op = "receive"
    /\ pc = "send" => Len(bus_log) = 2 * (idx - 1)
    /\ pc = "receive" => Len(bus_log) = 2 * idx - 1
    /\ (pc \in {"commit", "raised"} \/ (pc = "idle" /\ cycles > 0))
        => Len(bus_log) = 2 * Len(clients)

(***************************************************************************)
(* Poll engine and store: claims C11, C12, C14 under Spec.                 *)
(***************************************************************************)
\* the positions of the commit calls among the store calls of the cycle
CommitCalls == {k \in 1..Len(store_calls) : store_calls[k].op = "commit"}

\* the current poll_all call is over: it returned, or an exception left it
CycleOver == pc \in {"raised", "closed"} \/ (pc = "idle" /\ cycles > 0)

\* C11: each poll_all cycle calls the store's commit exactly once, after the
\* last insert of the cycle and before poll_all returns, also when the cycle
\* made no insert: while the loop runs no commit has been made, and a cycle
\* that is over has made one commit, as its last store call, after one
\* insert per Reading.
C11_CommitOncePerCycle ==
    transport = "rs485" =>
        /\ Cardinality(CommitCalls) <= 1
        /\ CommitCalls \subseteq {Len(store_calls)}
        /\ pc \in {"send", "receive", "commit"} => CommitCalls = {}
        /\ CycleOver =>
            /\ CommitCalls = {Len(store_calls)}
            /\ Len(store_calls) = Len(results) + 1

\* the ids of the rows cycle c inserted, and the ids an external reader sees
CycleIds(c) == {ins_log[k].id : k \in {j \in 1..Len(ins_log) : ins_log[j].cycle = c}}
VisibleIds == {db_committed[j].id : j \in 1..Len(db_committed)}

\* C12: no half-committed cycle. At every moment and for every cycle, also
\* one that an error cut short, the rows an external reader sees hold all the
\* rows the cycle inserted or none of them.
C12_NoHalfCommittedCycle ==
    \A c \in {ins_log[k].cycle : k \in 1..Len(ins_log)} :
        \/ CycleIds(c) \subseteq VisibleIds
        \/ CycleIds(c) \cap VisibleIds = {}

\* C12 witness: a cycle was cut short after it had inserted a row, the daemon
\* closed the store, and the reader sees no row of it.
C12_Witness ==
    /\ transport = "rs485"
    /\ pc = "closed"
    /\ Len(ins_log) = 1
    /\ ins_log[1].id \notin VisibleIds

(***************************************************************************)
(* Store: claims C13, C15..C18 under SpecStore.                            *)
(***************************************************************************)
\* the step made one more store call, of the kind `op`
Did(op) ==
    /\ Len(store_calls') = Len(store_calls) + 1
    /\ store_calls'[Len(store_calls')].op = op

StoreOps == [k \in 1..Len(store_calls) |-> store_calls[k].op]

\* C13: a row appended by insert is not visible to an external reader until
\* commit is called (the visible rows change only in a commit, or in purge,
\* which commits), and a crash between an insert and the next commit loses
\* exactly the rows inserted since the last commit: every committed row is
\* still there afterwards.
C13_VisibleOnlyAfterCommit ==
    [][/\ Did("insert") => db_committed' = db_committed
       /\ Did("crash") => db_committed' = db_committed /\ db_pending' = <<>>
       /\ db_committed' # db_committed => Did("commit") \/ Did("purge")]_vars

\* C13 witness: a row was committed, another inserted, and the writer crashed
\* before the next commit: the first row is there, the second is gone.
C13_Witness ==
    /\ StoreOps = <<"insert", "commit", "insert", "crash">>
    /\ Len(db_committed) = 1
    /\ db_committed[1].id = store_calls[1].id
    /\ db_pending = <<>>

\* C15: store row count. Starting from an empty store, after N successful
\* inserts followed by one commit, fetch with a limit of at least N returns
\* exactly N rows, newest first, and their ids are strictly increasing in
\* insertion order.
C15_RowCount ==
    LET N == Len(store_calls) - 1 IN
    (/\ call.fn = "fetch"
     /\ N >= 0
     /\ store_calls[N + 1].op = "commit"
     /\ \A k \in 1..N : store_calls[k].op = "insert"
     /\ call.arg >= N)
    => /\ Len(ret.val) = N
       /\ \A k \in 1..N : ret.val[k].id = store_calls[N + 1 - k].id
       /\ \A k \in 1..(N - 1) : store_calls[k].id < store_calls[k + 1].id

\* C15 witness: three inserts, a commit, and fetch(10) gave three rows.
C15_Witness ==
    /\ StoreOps = <<"insert", "insert", "insert", "commit">>
    /\ call = StoreCall("fetch", 0, 10)
    /\ Len(ret.val) = 3

\* C16: row ids are monotonic over the life of the store: every insert gets
\* an id greater than the id of every row inserted before it, rows that purge
\* has deleted included.  (Stated here for lives of the store without a
\* crash, so that every earlier insert was either committed or is pending.)
C16_IdsNeverReused ==
    (\A k \in 1..Len(store_calls) : store_calls[k].op # "crash") =>
        \A i, j \in 1..Len(store_calls) :
            (i < j /\ store_calls[i].op = "insert" /\ store_calls[j].op = "insert")
                => store_calls[i].id < store_calls[j].id

\* C17: purge monotonicity. With cutoff = now - days*86400, after purge(days)
\* no surviving row has ts < cutoff, every row that had ts >= cutoff is still
\* there with the same id, ts, addr and samples, no other row appeared, and
\* the count returned is the number of rows removed (0 on an empty store).
C17_PurgeMonotonic ==
    [][Did("purge") =>
        LET cutoff == now - call'.arg * 86400
            before == db_committed \o db_pending
            after == db_committed' \o db_pending'
        IN  /\ call'.fn = "purge"
            /\ \A j \in 1..Len(after) : after[j].ts >= cutoff
            /\ \A k \in 1..Len(before) :
                    before[k].ts >= cutoff
                        => \E j \in 1..Len(after) : after[j] = before[k]
            /\ \A j \in 1..Len(after) :
                    \E k \in 1..Len(before) : before[k] = after[j]
            /\ ret' = Return(Len(before) - Len(after))
            /\ before = <<>> => ret' = Return(0)]_vars

\* C17 witness: purge(0) removed a row older than the cutoff and kept a row
\* whose ts is the cutoff itself.
C17_Witness ==
    /\ call = StoreCall("purge", 0, 0)
    /\ store_calls # <<>>
    /\ store_calls[Len(store_calls)].op = "purge"
    /\ ret = Return(1)
    /\ Len(db_committed) = 1
    /\ db_committed[1].ts = now

\* C18: insert with a samples list whose length is not 4 fails with the
\* bad-channel-count error and leaves the store unchanged: no row is
\* appended, neither to the pending nor to the committed rows.
C18_BadChannelCount ==
    [][(call'.fn = "insert" /\ Len(call'.arg) # 4) =>
        /\ ret' = Raise("ValueError", "BadChannelCount")
        /\ db_pending' = db_pending
        /\ db_committed' = db_committed
        /\ store_calls' = store_calls]_vars

\* C18 witness: over a store that holds a committed and a pending row, an
\* insert of three samples failed.
C18_Witness ==
    /\ call.fn = "insert"
    /\ Len(call.arg) = 3
    /\ ret = Raise("ValueError", "BadChannelCount")
    /\ Len(db_committed) = 1
    /\ Len(db_pending) = 1

(***************************************************************************)
(* Rows written by the engines: claims C14, C19, C20 under Spec.           *)
(***************************************************************************)
StoredRows == db_committed \o db_pending

\* C14: stored order equals poll order. Among the rows the engines wrote,
\* within a cycle the row of an earlier position of the configured list has
\* a smaller id than the row of a later position, every row of an earlier
\* cycle has a smaller id than every row of a later cycle, and each row
\* carries the address of its position.
C14_StoredOrder ==
    /\ \A i, j \in 1..Len(ins_log) :
        (\/ ins_log[i].cycle < ins_log[j].cycle
         \/ (ins_log[i].cycle = ins_log[j].cycle /\ ins_log[i].pos < ins_log[j].pos))
            => ins_log[i].id < ins_log[j].id
    /\ transport = "rs485" =>
        \A i \in 1..Len(ins_log), k \in 1..Len(StoredRows) :
            StoredRows[k].id = ins_log[i].id
                => StoredRows[k].addr = clients[ins_log[i].pos]

\* C14 witness: two cycles over [5, 3] in which both devices answered; the
\* four rows are committed, in poll order.
C14_Witness ==
    /\ clients = <<5, 3>>
    /\ cycles = 2
    /\ Len(ins_log) = 4
    /\ [k \in 1..Len(db_committed) |-> db_committed[k].addr] = <<5, 3, 5, 3>>

\* C19: whatever bytes the links deliver, every row in the store has addr in
\* 1..247.
C19_AddrRange ==
    \A k \in 1..Len(StoredRows) : StoredRows[k].addr \in 1..247

\* C19 witness: the listener stored the pushed readings of devices 247 and 1.
C19_Witness ==
    /\ transport = "wifi"
    /\ [k \in 1..Len(db_committed) |-> db_committed[k].addr] = <<247, 1>>

\* the i-th 16-bit slot (i = 0..3) of the payload of the REPLY frame `raw`
Slot(raw, i) == raw[5 + 2 * i] + 256 * raw[6 + 2 * i]

\* C20: for every row stored by the poll engine or the push listener, column
\* temp_i is null if and only if the i-th 16-bit slot of the accepted REPLY
\* payload held 0x7FFF; otherwise the column is the signed value of the slot.
C20_NullIffSentinel ==
    \A e \in 1..Len(ins_log), k \in 1..Len(StoredRows) :
        StoredRows[k].id = ins_log[e].id =>
            LET row == StoredRows[k]
                cols == <<row.temp_0, row.temp_1, row.temp_2, row.temp_3>>
            IN  \A i \in 0..3 :
                    /\ cols[i + 1] = None <=> Slot(ins_log[e].raw, i) = 32767
                    /\ cols[i + 1] # None
                        => cols[i + 1] =
                            Some(SignedWord(SubSeq(ins_log[e].raw, 5, 12), i + 1))

\* C20 witness: a row with a negative sample, a zero, a null and the lowest
\* value was stored from a polled REPLY.
C20_Witness ==
    /\ transport = "rs485"
    /\ \E k \in 1..Len(db_committed) :
        /\ db_committed[k].temp_0 = Some(-100)
        /\ db_committed[k].temp_1 = Some(0)
        /\ db_committed[k].temp_2 = None
        /\ db_committed[k].temp_3 = Some(-32768)

(***************************************************************************)
(* Timestamps: claim C21 under SpecStore.                                  *)
(***************************************************************************)
\* C21: for any two stored rows with the same addr, the row inserted earlier
\* (smaller id) has a ts less than or equal to the ts of the row inserted
\* later.
C21_TsOrderPerAddr ==
    \A i, j \in 1..Len(StoredRows) :
        (StoredRows[i].addr = StoredRows[j].addr
            /\ StoredRows[i].id < StoredRows[j].id)
            => StoredRows[i].ts <= StoredRows[j].ts

(***************************************************************************)
(* Push listener: claims C22, C23 under Spec.                              *)
(***************************************************************************)
\* the step is a listener.receive call
Received == receives' = receives + 1

\* the datagram is a valid REPLY: it decodes, cmd is REPLY, 8 payload bytes
ValidReply(raw) ==
    /\ raw # <<>>
    /\ decoded[raw].ok
    /\ decoded[raw].val.cmd = 2
    /\ Len(decoded[raw].val.payload) = 8

\* C22: push errors leave the store unchanged. When the datagram handed to
\* the listener is empty, fails decode, has cmd != REPLY or has a payload
\* length != 8, receive returns absent, inserts no row and the stored rows
\* are exactly what they were before the call; a valid frame that comes after
\* such a call is still accepted.
C22_PushErrorsLeaveStore ==
    [][Received =>
        /\ ~ValidReply(last_recv'.raw) =>
            /\ last_recv'.out.ok
            /\ last_recv'.out.val.kind = "None"
            /\ db_committed' = db_committed
            /\ db_pending' = db_pending
            /\ store_calls' = <<>>
            /\ pc' = "idle"
        /\ (ValidReply(last_recv'.raw) /\ last_recv.out.ok
                /\ last_recv.out.val.kind = "None") =>
            /\ last_recv'.out.ok
            /\ last_recv'.out.val.kind = "Reading"
            /\ Len(db_committed') = Len(db_committed) + 1]_vars

\* C22 witness: over a store that holds a pushed row, a frame with a bad CRC
\* was handed to the listener and receive returned absent.
C22_Witness ==
    /\ transport = "wifi"
    /\ receives = 2
    /\ Len(last_recv.raw) = 14
    /\ ~decoded[last_recv.raw].ok
    /\ last_recv.out = Return(Absent("bad frame"))
    /\ Len(db_committed) = 1

\* C23: for every valid REPLY datagram the listener's receive inserts exactly
\* one row carrying the decoded addr and the four parsed samples and commits
\* before it returns: the row is visible when receive returns, and no
\* uncommitted row is pending between receive calls.
C23_PushInsertCommit ==
    /\ [](transport = "wifi" => db_pending = <<>>)
    /\ [][(Received /\ ValidReply(last_recv'.raw)) =>
            LET raw == last_recv'.raw
                row == db_committed'[Len(db_committed')]
                cols == <<row.temp_0, row.temp_1, row.temp_2, row.temp_3>>
            IN  /\ Len(db_committed') = Len(db_committed) + 1
                /\ SubSeq(db_committed', 1, Len(db_committed)) = db_committed
                /\ row.addr = raw[2]
                /\ row.addr \in 1..247
                /\ \A i \in 0..3 :
                      cols[i + 1] =
                        IF Slot(raw, i) = 32767 THEN None
                        ELSE Some(SignedWord(SubSeq(raw, 5, 12), i + 1))
                /\ StoreOps' = <<"insert", "commit">>
                /\ pc' = "idle"]_vars

\* C23 witness: two valid REPLY datagrams were received, the second from
\* device 247 with a negative sample; both rows are committed.
C23_Witness ==
    /\ transport = "wifi"
    /\ receives = 2
    /\ ValidReply(last_recv.raw)
    /\ Len(db_committed) = 2
    /\ db_committed[2].addr = 247
    /\ db_committed[2].temp_0 = Some(-100)
    /\ db_pending = <<>>

(***************************************************************************)
(* Supervisor: claims C24..C28 under SpecMain (C26 under SpecMainLive).    *)
(***************************************************************************)
InCycle(p) == p \in {"send", "receive", "commit"}
RunOver == pc \in {"returned", "raised", "closed"}

\* C24: the supervisor loops start no new work once the shutdown flag is
\* raised: when the flag is set at the loop head, run_poller begins no poll
\* cycle and run_listener no receive, the only step is the return; if the
\* flag is already set on entry, the function returns 0 having sent no POLL
\* frame, performed no receive and inserted no row.
C24_NoNewWorkAfterFlag ==
    /\ [][(shutdown /\ pc \in {"idle", "returned", "closed"}) =>
            /\ pc = "idle" => pc' = "returned"
            /\ bus_log' = bus_log
            /\ receives' = receives
            /\ cycles' = cycles
            /\ ins_log' = ins_log
            /\ db_committed' = db_committed]_vars
    /\ []((pc = "returned" /\ sig_at.pc = "idle" /\ sig_at.cycles = 0
                /\ sig_at.receives = 0) =>
            /\ ret = Return(0)
            /\ bus_log = <<>>
            /\ receives = 0
            /\ ins_log = <<>>
            /\ db_pending = <<>>)

\* C24 witness: the flag was set before run_poller made its first test, and
\* run_poller has returned 0.
C24_Witness ==
    /\ transport = "rs485"
    /\ pc = "returned"
    /\ sig_at.pc = "idle"
    /\ sig_at.cycles = 0
    /\ ret = Return(0)
    /\ bus_log = <<>>

\* C25 as claimed: the shutdown signal is honored between every poll. If the
\* flag is raised while a cycle is in progress, the flag is checked before
\* the next device is polled: no POLL frame is sent to a device later in the
\* address list of that cycle.
C25_HonoredBetweenPolls ==
    [][(shutdown /\ InCycle(sig_at.pc) /\ sig_at.cycles = cycles
            /\ pc = "send" /\ idx > sig_at.idx)
        => bus_log' = bus_log]_vars

\* C25 amended: the shutdown signal is honored between every poll cycle. The
\* flag is tested at the head of run_poller's loop only: a cycle that is in
\* progress when the flag is raised carries on with the next device of the
\* list, and every poll made while the flag is set belongs to that cycle.
C25_HonoredBetweenCycles ==
    /\ []((shutdown /\ InCycle(pc)) =>
            (InCycle(sig_at.pc) /\ sig_at.cycles = cycles))
    /\ [][(shutdown /\ pc = "send") =>
            \/ /\ pc' = "receive"
               /\ idx' = idx
               /\ bus_log' = Append(bus_log,
                    [op |-> "send", data |-> poll_frame[clients[idx]]])
            \/ /\ pc' = "raised"
               /\ clients[idx] \notin 1..247]_vars

\* C25 witness: the flag was raised while the first device of [3, 5] was
\* being polled, and the POLL frame of the second device has been sent.
C25_Witness ==
    /\ clients = <<3, 5>>
    /\ shutdown
    /\ sig_at.pc = "receive"
    /\ sig_at.idx = 1
    /\ sig_at.cycles = cycles
    /\ Len(bus_log) = 3
    /\ bus_log[3] = [op |-> "send", data |-> poll_frame[5]]

\* C26: shutdown is live. Provided every link and store call returns, once
\* the flag is raised control eventually leaves run_poller or run_listener
\* (by its return, or by an exception when a call raises); the interval wait
\* does not have to run to its deadline; and at most the cycle in progress
\* when the flag was raised is completed, and no receive is begun.
C26_ShutdownLive ==
    /\ shutdown ~> RunOver
    /\ [](shutdown =>
            /\ cycles <= sig_at.cycles + (IF InCycle(sig_at.pc) THEN 1 ELSE 0)
            /\ receives = sig_at.receives)
    /\ [][(shutdown /\ pc = "wait" /\ pc' # "wait") =>
            pc' = "idle" /\ cycles' = cycles]_vars

\* C26 witness: the flag was raised during the interval wait and run_poller
\* has returned before the deadline of the wait.
C26_Witness ==
    /\ pc = "returned"
    /\ sig_at.pc = "wait"
    /\ now < wait_until
    /\ ret = Return(cycles)
    /\ cycles = sig_at.cycles

C28_PurgeOnceAtStartup ==
    /\ [](pc = "main" =>
            /\ purges = <<>>
            /\ cycles = 0 /\ receives = 0
            /\ bus_log = <<>> /\ ins_log = <<>>)
    /\ [](pc # "main" => purges = <<[days |-> 365]>>)
    /\ [][pc = "main" =>
            LET cutoff == now - 365 * 86400 IN
            /\ \A j \in 1..Len(db_committed') : db_committed'[j].ts >= cutoff
            /\ db_committed' =
                SelectSeq(db_committed, LAMBDA r : r.ts >= cutoff)]_vars
    /\ [][pc # "main" =>
            \A k \in 1..Len(db_committed) :
                \E j \in 1..Len(db_committed') :
                    db_committed'[j] = db_committed[k]]_vars

\* C28 witness: the store held an old and a recent row; the run purged the
\* old one at startup and has completed a cycle that stored a row.
C28_Witness ==
    /\ purges = <<[days |-> 365]>>
    /\ cycles = 1
    /\ Len(db_committed) = 2
    /\ db_committed[1].id = 2
    /\ db_committed[1].ts = StartTime - 1
    /\ db_committed[2].id = 3

(***************************************************************************)
(* Serial link: claims C29, C30 under SpecBus.                             *)
(***************************************************************************)
SerOps == [k \in 1..Len(ser_log) |-> ser_log[k].op]
SerReads == SelectSeq(ser_log, LAMBDA e : e.op = "read")
Received1 == call.fn = "receive" /\ ser_pc = "idle"

\* C29: every send performs exactly the sequence discard-buffered-input,
\* write all bytes, flush output, in that order, and no byte that arrived
\* before send was called is returned (or even read) by the receive that
\* follows it.
C29_SendOrder ==
    /\ ser_pc = "write" => SerOps = <<"reset_input_buffer">>
    /\ ser_pc = "flush" => SerOps = <<"reset_input_buffer", "write">>
    /\ ser_pc = "sent" => SerOps = <<"reset_input_buffer", "write", "flush">>
    /\ Len(ser_log) >= 3 =>
        /\ SubSeq(SerOps, 1, 3) = <<"reset_input_buffer", "write", "flush">>
        /\ ser_log[2].data \in SendInputs
        /\ \A k \in 4..Len(ser_log) : ser_log[k].op = "read"
    /\ \A i \in 1..Len(ser_ret) : ~ser_ret[i].stale
    /\ \A k \in 1..Len(ser_log) :
        \A i \in 1..Len(ser_log[k].data) :
            ser_log[k].op = "read" => ~ser_log[k].data[i].stale

\* C29 witness: two bytes were in the input buffer when send was called; the
\* frame that arrived afterwards was returned by the receive that followed.
C29_Witness ==
    /\ Received1
    /\ ser_log[1].op = "reset_input_buffer"
    /\ ser_log[1].n = 2
    /\ Bytes(ser_ret) = forge_frame(3, PROTO_CMD_REPLY, <<>>)

\* C30: receive never returns a partial frame. Its result is empty or the
\* 4 header bytes followed by exactly LEN + 2 further bytes, LEN being
\* header byte 3; when fewer than 4 header bytes arrive no second read is
\* attempted, and when fewer than LEN + 2 tail bytes arrive the result is
\* empty.
C30_NoPartialFrame ==
    Received1 =>
        /\ ret = Return(Bytes(ser_ret))
        /\ \/ ser_ret = <<>>
           \/ /\ Len(ser_ret) >= 6
              /\ Len(ser_ret) = 6 + ser_ret[4].b
        /\ Len(SerReads) \in {1, 2}
        /\ SerReads[1].n = 4
        /\ Len(SerReads[1].data) < 4 => (Len(SerReads) = 1 /\ ser_ret = <<>>)
        /\ Len(SerReads[1].data) = 4 =>
            /\ Len(SerReads) = 2
            /\ SerReads[2].n = SerReads[1].data[4].b + 2
            /\ Len(SerReads[2].data) < SerReads[2].n => ser_ret = <<>>
            /\ Len(SerReads[2].data) = SerReads[2].n =>
                    ser_ret = SerReads[1].data \o SerReads[2].data

\* C30 witness: the header announced two payload bytes and only three of
\* the four tail bytes arrived before the second read ended: receive
\* returned b"".
C30_Witness ==
    /\ Received1
    /\ Len(SerReads) = 2
    /\ SerReads[2].n = 4
    /\ Len(SerReads[2].data) = 3
    /\ ret = Return(<<>>)

(***************************************************************************)
(* Link failures: claim C31 under SpecBus.                                 *)
(***************************************************************************)
\* C31: every failure of the serial link (timeout, short read, or an I/O
\* error raised by the port during a read) is surfaced to the caller of
\* receive as empty bytes and never as an exception: a receive that has
\* ended has returned, and it returned b"" unless a whole frame was read.
C31_LinkFailuresAsEmpty ==
    (call.fn = "receive" /\ ser_pc \in {"idle", "raised"}) =>
        /\ ret.ok
        /\ (\E k \in 1..Len(SerReads) :
                Len(SerReads[k].data) < SerReads[k].n) => ret = Return(<<>>)

(***************************************************************************)
(* Configuration: claim C32 under SpecConfig.                              *)
(***************************************************************************)
\* C32: configuration loading rejects an rs485 device list that is empty or
\* contains any address outside 1..247: when loading succeeds, the list
\* handed to the poll loop is non-empty and every address in it is one that
\* encode_frame accepts.
C32_ConfigRejectsBadAddr ==
    (Done("load_config") /\ ret.ok) =>
        /\ Len(clients) > 0
        /\ \A i \in 1..Len(clients) : clients[i] \in 1..247

(***************************************************************************)
(* The master daemon: claims C33 and C34 under SpecMaster.                 *)
(***************************************************************************)
\* the link handed back a well-formed REPLY of the polled device with a
\* payload of eight bytes
MasterValidReply(addr, raw) ==
    /\ decode_frame(raw).ok
    /\ decode_frame(raw).val.addr = addr
    /\ decode_frame(raw).val.cmd = PROTO_CMD_REPLY
    /\ Len(decode_frame(raw).val.payload) = PROTO_REPLY_PAYLOAD_LEN

\* C33: readings collected by the master daemon's poll loop are persisted:
\* once the daemon has shut down (link closed, store closed) after a cycle in
\* which a polled device replied, a reader of the database finds a row of that
\* device.
C33_MasterReadingsPersisted ==
    (transport = "master" /\ pc = "closed") =>
        \A k \in 1..Len(cycle_polls) :
            cycle_polls[k].from = cycle_polls[k].addr =>
                \E r \in 1..Len(db_committed) :
                    db_committed[r].addr = cycle_polls[k].addr

\* C34: the master's poll(addr), given a valid REPLY of addr whose payload is
\* four little-endian int16 samples, does not raise and returns a reading whose
\* temp_0..temp_3 are those samples, None exactly where the sample is 0x7FFF.
C34_MasterPollReading ==
    (transport = "master" /\ last_poll.out # NoRet
        /\ MasterValidReply(last_poll.addr, last_poll.raw)) =>
        LET t == parse_reply(decode_frame(last_poll.raw).val.payload).val
        IN  /\ last_poll.out.ok
            /\ last_poll.out.val.kind = "Reading"
            /\ last_poll.out.val.addr = last_poll.addr
            /\ <<last_poll.out.val.temp_0, last_poll.out.val.temp_1,
                 last_poll.out.val.temp_2, last_poll.out.val.temp_3>> = t

(***************************************************************************)
(* WifiBus: claims C35..C38 under SpecWifi.                                *)
(***************************************************************************)
\* the step in which sendall hands a frame to a connection
Delivers == w_pc = "sendall" /\ w_pc' = "sent"

\* the step in which the handler of an I/O failure of send or receive runs
HandlesFailure ==
    (w_pc = "send_fail" /\ w_pc' = "sent")
        \/ (w_pc = "recv_fail" /\ w_pc' = "idle")

\* C35: at most one connection is registered per slave address under any
\* interleaving of the accept thread with send and receive: no connection is
\* registered under two addresses, a connection that replaces a registered one
\* finds the old one closed by the same step, and a frame that send delivers
\* goes to the connection registered for its address and to no other.
C35_OneConnPerAddr ==
    [][/\ \A a, b \in WifiAddrs :
            (a # b /\ w_sockets'[a] # 0) => w_sockets'[a] # w_sockets'[b]
       /\ \A a \in WifiAddrs :
            (w_sockets[a] # 0 /\ w_sockets'[a] # 0
                /\ w_sockets'[a] # w_sockets[a]) =>
                /\ w_conns'[w_sockets[a]].st = "closed"
                /\ w_conns'[w_sockets'[a]].st = "open"
       /\ Delivers =>
            /\ w_last'.conn = w_sockets[w_cur]
            /\ w_conns[w_last'.conn].st = "open"]_vars

\* a frame was delivered to the connection that replaced a closed one
C35_Witness ==
    /\ w_pc = "sent"
    /\ w_last.op = "send" /\ w_last.ok /\ w_last.conn # 0
    /\ w_sockets[w_last.addr] = w_last.conn
    /\ \E c \in 1..MaxConns :
        /\ c # w_last.conn
        /\ w_conns[c].st = "closed"
        /\ w_conns[c].addr = w_last.addr

\* C36: once close() has returned, every registered connection has been
\* closed and removed, the accept thread registers no further connection and
\* accepts no new one, under every interleaving of close with the accept
\* thread.
C36_CloseIsFinal ==
    [][w_pc' = "closed" =>
        /\ \A a \in WifiAddrs : w_sockets'[a] = 0
        /\ w_pc = "closed" => (acc_conn' = acc_conn \/ acc_conn' = 0)]_vars

\* C37: send discards the input already buffered from the addressed slave:
\* no byte that had arrived before send was called is returned by the receive
\* that follows.
C37_SendDiscardsInput ==
    (w_last.op = "receive" /\ w_pc = "idle") =>
        \A i \in 1..Len(w_last.data) : ~w_last.data[i].stale

\* C38: the handler of an I/O failure of send or receive removes the failed
\* connection from the registry only if it is still the one registered for its
\* address: every other registered connection, a newer one for the same
\* address included, stays registered, and the failed one is registered no
\* longer.
C38_FailureKeepsNewer ==
    [][HandlesFailure =>
        /\ \A a \in WifiAddrs :
            (w_sockets[a] # 0 /\ w_sockets[a] # w_sock) =>
                w_sockets'[a] = w_sockets[a]
        /\ \A a \in WifiAddrs : w_sockets'[a] # w_sock]_vars

\* a send or receive has failed on a connection that the accept thread had
\* replaced, and the newer connection is still registered
C38_Witness ==
    /\ w_pc \in {"sent", "idle"}
    /\ ~w_last.ok /\ w_last.conn # 0
    /\ w_conns[w_last.conn].st = "closed"
    /\ w_sockets[w_last.addr] # 0
    /\ w_sockets[w_last.addr] # w_last.conn
    /\ w_conns[w_sockets[w_last.addr]].st = "open"

(***************************************************************************)
(* The master's push listener: claim C39 under SpecListener.               *)
(***************************************************************************)
\* C39: the listener's freshness state tracks accepted frames only:
\* last_seen(addr) is None until a valid REPLY from addr has been inserted and
\* committed and is not None from then on; a receive that gets a rejected or
\* empty datagram changes no last_seen entry; stale_slaves returns only
\* addresses whose last_seen is not None, so nothing before the first accepted
\* frame.
C39_LastSeenTracksAccepted ==
    /\ [](\A a \in SeenAddrs :
            last_seen[a] # None <=>
                \E k \in 1..Len(db_committed) : db_committed[k].addr = a)
    /\ []((call.fn = "last_seen" /\ ret # NoRet) =>
            ret.val = last_seen[call.addr])
    /\ []((call.fn = "stale_slaves" /\ ret # NoRet) =>
            /\ \A a \in ret.val : last_seen[a] # None
            /\ db_committed = <<>> => ret.val = {})
    /\ [][(Received /\ ~ValidReply(last_recv'.raw)) =>
            last_seen' = last_seen]_vars
    /\ [][\A a \in SeenAddrs :
            last_seen[a] # None => last_seen'[a] # None]_vars

\* stale_slaves has answered with an address seen before, after a datagram
\* that was rejected
C39_Witness ==
    /\ call.fn = "stale_slaves" /\ ret # NoRet
    /\ ret.val # {}
    /\ \E a \in SeenAddrs : last_seen[a] = None
    /\ last_recv.out # NoRet
    /\ ~ValidReply(last_recv.raw)

====
